---- MODULE Spec2Model ----
(***************************************************************************)
(* The localization job pipeline of backend/routes/video.py and the        *)
(* services it drives (S3, DynamoDB history, Gemini, edge-tts, FFmpeg).    *)
(*                                                                         *)
(* Scheduling.  Every route handler and every background task is an        *)
(* `async def` run by one asyncio event loop.  A coroutine keeps the loop  *)
(* until it awaits something that really suspends; the only such await in  *)
(* the pipeline is the edge-tts call of TTSService.generate_audio_segment. *)
(* boto3, the Gemini client, time.sleep and FFmpeg are blocking calls.     *)
(* `loop` names the task that holds the event loop (0: nobody); handlers   *)
(* have no await and are single steps taken while the loop is free.        *)
(*                                                                         *)
(* Collaborators are nondeterministic: each call draws its outcome from    *)
(* the outcomes the service code distinguishes ("ok", a botocore           *)
(* ClientError that the service turns into an error result, and any other  *)
(* exception, which the service lets through).                             *)
(***************************************************************************)
EXTENDS Integers, Sequences, FiniteSets, TLC

\* ---------------------------------------------------------------- bounds
MaxJobs  == 1      \* jobs created by /localize
MaxTasks == 3      \* background tasks ever scheduled
MaxSegs  == 1      \* segments in an analysis result or an approved list

\* ------------------------------------------------------------- constants
PENDING          == "pending"
UPLOADING        == "uploading"
ANALYZING        == "analyzing"
GENERATING_AUDIO == "generating_audio"
STITCHING        == "stitching"
COMPLETE         == "complete"
FAILED           == "failed"

None == "None"                       \* Python's None (user_id, temp_dir, error)
Users == {"u1"}                      \* the `sub` claim of an authenticated caller
Texts == {"", "t"}                   \* translated_text: empty or not
\* lists of segments, each a dict with its translated_text
SegLists == UNION {[1..n -> [translated_text : Texts]] : n \in 0..MaxSegs}
\* job ids a request can name: the registered ones and one that is unknown
RequestJobIds == 1..(MaxJobs + 1)
FileKey == "uploads/a.mp4"
Language == "hindi"

\* progress values written by process_draft_creation
PDC_progress_download   == 10
PDC_progress_downloaded == 25
PDC_progress_analyzing  == 30
PDC_progress_segments   == 90
PDC_progress_complete   == 100
\* progress values written by process_finalize_dubbing
PFD_progress_download   == 5
PFD_progress_downloaded == 15
PFD_progress_audio      == 20
\* A faulty variant of PFD_progress_audio_done: a value below the one before it.
PFD_progress_audio_done_low == PFD_progress_audio - 10
PFD_progress_audio_done == 50
PFD_progress_stitching  == 55
PFD_progress_stitched   == 80
PFD_progress_upload     == 90
PFD_progress_complete   == 100
\* the primary's size in MB above which the WhatsApp version is made
WhatsAppThresholdMB == 15
\* progress values written by process_localization_job
PLJ_progress_download   == 5
PLJ_progress_downloaded == 15
PLJ_progress_analyzing  == 20
PLJ_progress_analyzed   == 40
PLJ_progress_audio      == 45
PLJ_progress_audio_done == 65
PLJ_progress_stitching  == 70

VARIABLES
    cfg,          \* settings: [aws, bucket, ffmpeg], fixed at start-up
    jobs,         \* the `jobs` dict: sequence of LocalizationJob, job_id = index
    job_results,  \* the `job_results` dict: job_id -> stored results or None
    tasks,        \* background tasks in scheduling order
    loop,         \* the task holding the event loop, 0 when it is free
    history,      \* the DynamoDB table: set of items [PK, job_id, status]
    resp,         \* the HTTP response produced by the last step (op "none" if it was a task step)
    call          \* the frame of a service function called on its own (fn "none": no such call)

vars == <<cfg, jobs, job_results, tasks, loop, history, resp, call>>

NoResp == [op |-> "none"]
NoCall == [fn |-> "none"]
NoResults == [kind |-> None]         \* job_id not in job_results

\* ------------------------------------------------------- configuration
S3Configured == cfg.aws /\ cfg.bucket
DBConfigured == cfg.aws
FFmpegAvailable == cfg.ffmpeg

\* ------------------------------------------------------------- models.py
LocalizationJob(file_key, language) ==
    [status |-> PENDING, progress |-> 0,
     message |-> "Job created, starting full localization...",
     input_file |-> file_key, target_language |-> language,
     output_file |-> None, error |-> None]

\* services/ffmpeg_service.py: the fields of ProcessingResult the callers read.
ProcessingResult(success, file_size_mb) ==
    [success |-> success, file_size_mb |-> file_size_mb]

\* A scheduled background task: the function, its arguments and its locals.
Task(fn, job_id, segs, user_id) ==
    [fn |-> fn, job_id |-> job_id, user_id |-> user_id,
     segments |-> segs,          \* approved_segments, or the analysis' segments
     pc |-> "start",
     temp_dir |-> None,          \* None | "exists" | "removed"
     i |-> 0,                    \* loop index of generate_segments_from_analysis
     audio_segments |-> <<>>,    \* indices of the segments whose audio was generated
     exc |-> None,               \* the exception being handled, if any
     escaped |-> None,           \* the exception that left the coroutine, if any
     rmtree_failed |-> FALSE,    \* shutil.rmtree raised in `finally`
     stitch_result |-> ProcessingResult(FALSE, 0),   \* what stitch_video returned
     whatsapp_result |-> None,   \* None | "success" | "failed" (ProcessingResult.success)
     uploaded |-> FALSE,         \* the primary upload returned success
     whatsapp_url |-> None,
     vtt |-> None,               \* how the subtitle block ended, once it has run
     subtitle_s3_key |-> None,
     written |-> -1]             \* the last progress value this task wrote

\* ------------------------------------------------------------------ Init
Init ==
    /\ cfg \in [aws : BOOLEAN, bucket : BOOLEAN, ffmpeg : BOOLEAN]
    /\ jobs = <<>>
    /\ job_results = [j \in 1..MaxJobs |-> NoResults]
    /\ tasks = <<>>
    /\ loop = 0
    /\ history = {}
    /\ resp = NoResp
    /\ call = NoCall

\* ------------------------------------------------ services/db_service.py
\* How a DynamoDB request ends: it succeeds, raises botocore's ClientError
\* (caught by the service), or raises anything else (not caught).
DbOutcomes == {"ok", "ClientError", "raise"}

\* A faulty variant of Items: the query has no partition key condition.
Items_any_partition(user_id, job_id) == {r \in history : r.job_id = job_id}
\* The query of get_video_by_job_id: PK = USER#<user_id>, filtered by job_id.
Items(user_id, job_id) == {r \in history : r.PK = user_id /\ r.job_id = job_id}

\* The outcomes of a request that is made; one that is not made has none to
\* choose from.
RequestOutcomes(outcomes, made) == IF made THEN outcomes ELSE {"ok"}

\* Returns the item ("item"), None, or lets the exception through ("raise").
get_video_by_job_id(user_id, job_id, q) ==
    IF ~DBConfigured THEN None
    ELSE IF q = "ok" THEN (IF Items(user_id, job_id) # {} THEN "item" ELSE None)
    ELSE IF q = "ClientError" THEN None
    ELSE "raise"

\* The callers below test `"error" in video` and `video.get("video")` on what
\* get_video_by_job_id returned: on None the `in` test raises TypeError; on an
\* item neither key exists, so the function returns {"error": "Video not found"}
\* and never reaches its update_item call.
update_job_status(user_id, job_id, status, q) ==
    IF ~DBConfigured THEN [ret |-> "error", exc |-> None]
    ELSE LET video == get_video_by_job_id(user_id, job_id, q) IN
         IF video = "raise" THEN [ret |-> "raise", exc |-> "BotoCoreError"]
         ELSE IF video = None
              THEN [ret |-> "raise", exc |-> "TypeError: argument of type 'NoneType' is not iterable"]
              ELSE [ret |-> "error", exc |-> None]

update_job_segments(user_id, job_id, segments, status, q) ==
    IF ~DBConfigured THEN [ret |-> "error", exc |-> None]
    ELSE LET video == get_video_by_job_id(user_id, job_id, q) IN
         IF video = "raise" THEN [ret |-> "raise", exc |-> "BotoCoreError"]
         ELSE IF video = None
              THEN [ret |-> "raise", exc |-> "TypeError: argument of type 'NoneType' is not iterable"]
              ELSE [ret |-> "error", exc |-> None]

\* put_item of a new item; `p` is how the request ends.
save_video(user_id, job_id, status, p) ==
    IF ~DBConfigured THEN [ret |-> "error", exc |-> None, history |-> history]
    ELSE IF p = "ok"
         THEN [ret |-> "success", exc |-> None,
               history |-> history \cup {[PK |-> user_id, job_id |-> job_id, status |-> status]}]
    ELSE IF p = "ClientError" THEN [ret |-> "error", exc |-> None, history |-> history]
    ELSE [ret |-> "raise", exc |-> "BotoCoreError", history |-> history]

\* DBService.delete_video followed by the route's mapping to a status code.
db_delete_video(user_id, job_id, q, d) ==
    IF ~DBConfigured THEN [code |-> 500, history |-> history]
    ELSE LET video == get_video_by_job_id(user_id, job_id, q) IN
         IF video = "raise" THEN [code |-> 500, history |-> history]
         ELSE IF video = None THEN [code |-> 404, history |-> history]
         ELSE IF d = "ok"
              THEN [code |-> 200,
                    history |-> history \ {CHOOSE r \in Items(user_id, job_id) : TRUE}]
              ELSE [code |-> 500, history |-> history]

\* ------------------------------------------------ services/s3_service.py
S3Outcomes == {"ok", "ClientError", "raise"}

\* download_file: {"success": ...}, {"error": ...}, or an exception let through.
download_file(o) ==
    IF ~S3Configured THEN "error"
    ELSE IF o = "ok" THEN "success"
    ELSE IF o = "ClientError" THEN "error"
    ELSE "raise"

\* -------------------------------------------- services/ffmpeg_service.py
\* Python binds a call's keyword arguments to the callee's parameters before the
\* body runs; a keyword that names no parameter raises TypeError.
stitch_video_parameters ==
    {"original_video_path", "audio_segments", "output_path", "optimize_for_mobile"}
stitch_video_keywords ==
    {"original_video_path", "audio_segments", "output_path", "optimize_for_mobile",
     "tts_delay_seconds"}
CallBinds(keywords, parameters) == keywords \subseteq parameters

\* The ProcessingResult a media operation builds at each of its `return`
\* statements: success with the output_path argument, or failure with
\* output_path=None and the error text.
MediaSuccess(output_path) ==
    [success |-> TRUE, output_path |-> output_path, error |-> None]
\* A faulty variant of MediaFailure: the failure result keeps the path.
MediaFailure_keeps_path(output_path, error) ==
    [success |-> FALSE, output_path |-> output_path, error |-> error]
MediaFailure(output_path, error) ==
    [success |-> FALSE, output_path |-> None, error |-> error]
\* No result yet: the operation has not returned.
NoResult == [success |-> FALSE, output_path |-> None, error |-> "not returned"]

\* ---------------------------------------------------- routes: handlers
\* POST /localize.  get_current_user guarantees a non-empty `sub`.
start_localization ==
    /\ loop = 0
    /\ Len(jobs) < MaxJobs
    /\ Len(tasks) < MaxTasks
    /\ \E user_id \in Users :
        LET job_id == Len(jobs) + 1 IN
        /\ jobs' = Append(jobs, LocalizationJob(FileKey, Language))
        /\ tasks' = Append(tasks, Task("process_localization_job", job_id, <<>>, user_id))
        /\ resp' = [op |-> "localize", code |-> 200, job_id |-> job_id]
    /\ UNCHANGED <<call, cfg, job_results, loop, history>>

\* A faulty variant of MalformedRequest: the empty-list check is missing.
MalformedRequest_job_id_only(job_id, approved_segments) == job_id = 0
\* `if not job_id` / `if not approved_segments`: the two 400 checks.
MalformedRequest(job_id, approved_segments) == job_id = 0 \/ approved_segments = <<>>

\* A faulty variant of JobsReset: Phase 2 gets a job entry of its own.
JobsReset_new_entry(job_id) ==
    Append(jobs, [jobs[job_id] EXCEPT !.status = PENDING, !.progress = 0,
                                      !.message = "Starting final dubbing with your edits..."])
\* original_job.status = PENDING, progress = 0, message: the job found under
\* job_id is written in place.
JobsReset(job_id) ==
    [jobs EXCEPT ![job_id] =
        [@ EXCEPT !.status = PENDING, !.progress = 0,
                  !.message = "Starting final dubbing with your edits..."]]

\* POST /finalize.  job_id 0 stands for a request body without job_id.
finalize_dubbing ==
    /\ loop = 0
    /\ \E job_id \in {0} \cup RequestJobIds, approved_segments \in SegLists, user_id \in Users :
       \E q \in RequestOutcomes(DbOutcomes,
                                /\ ~MalformedRequest(job_id, approved_segments)
                                /\ job_id \in DOMAIN jobs
                                /\ FFmpegAvailable
                                /\ DBConfigured) :
        LET req == [job_id |-> job_id, segments_count |-> Len(approved_segments)]
            R(code) == [op |-> "finalize", req |-> req, code |-> code]
        IN
        IF MalformedRequest(job_id, approved_segments)
        THEN /\ resp' = R(400)
             /\ UNCHANGED <<jobs, tasks>>
        ELSE IF job_id \notin DOMAIN jobs
        THEN /\ resp' = R(404)
             /\ UNCHANGED <<jobs, tasks>>
        ELSE IF ~FFmpegAvailable
        THEN /\ resp' = R(503)
             /\ UNCHANGED <<jobs, tasks>>
        ELSE LET upd == update_job_segments(user_id, job_id, approved_segments, "processing", q) IN
             /\ jobs' = JobsReset(job_id)
             /\ IF upd.ret = "raise"
                THEN /\ resp' = R(500)
                     /\ tasks' = tasks
                ELSE /\ Len(tasks) < MaxTasks
                     /\ resp' = R(200)
                     /\ tasks' = Append(tasks,
                            Task("process_finalize_dubbing", job_id, approved_segments, user_id))
    /\ UNCHANGED <<call, cfg, job_results, loop, history>>

\* A faulty variant of get_job_status: the stored results are attached
\* whatever the status is.
get_job_status_always_results ==
    /\ loop = 0
    /\ \E job_id \in RequestJobIds :
        resp' = IF job_id \notin DOMAIN jobs
                THEN [op |-> "job_status", job_id |-> job_id, code |-> 404]
                ELSE [op |-> "job_status", job_id |-> job_id, code |-> 200,
                      status |-> jobs[job_id].status, progress |-> jobs[job_id].progress,
                      results |-> job_results[job_id]]
    /\ UNCHANGED <<call, cfg, jobs, job_results, tasks, loop, history>>

\* GET /job/{job_id}
get_job_status ==
    /\ loop = 0
    /\ \E job_id \in RequestJobIds :
        resp' = IF job_id \notin DOMAIN jobs
                THEN [op |-> "job_status", job_id |-> job_id, code |-> 404]
                ELSE [op |-> "job_status", job_id |-> job_id, code |-> 200,
                      status |-> jobs[job_id].status, progress |-> jobs[job_id].progress,
                      results |-> IF jobs[job_id].status = COMPLETE
                                  THEN job_results[job_id] ELSE NoResults]
    /\ UNCHANGED <<call, cfg, jobs, job_results, tasks, loop, history>>

\* DELETE /{job_id}
delete_video ==
    /\ loop = 0
    /\ \E job_id \in RequestJobIds, user_id \in Users, q \in RequestOutcomes(DbOutcomes, DBConfigured) :
       \E d \in RequestOutcomes(DbOutcomes, get_video_by_job_id(user_id, job_id, q) = "item") :
        LET r == db_delete_video(user_id, job_id, q, d) IN
        /\ history' = r.history
        /\ resp' = [op |-> "delete", user_id |-> user_id, job_id |-> job_id, code |-> r.code]
    /\ UNCHANGED <<call, cfg, jobs, job_results, tasks, loop>>

\* ------------------------------------------- background tasks: helpers
PDC == "process_draft_creation"
PLJ == "process_localization_job"
PFD == "process_finalize_dubbing"

\* Task t holds the event loop and stands at `pc` of function `fn`.
Running(t, fn, pc) ==
    /\ t \in DOMAIN tasks
    /\ loop = t
    /\ tasks[t].fn = fn
    /\ tasks[t].pc = pc

\* A scheduled task is started once the event loop is free.
Startable(t, fn) ==
    /\ t \in DOMAIN tasks
    /\ loop = 0
    /\ tasks[t].fn = fn
    /\ tasks[t].pc = "start"

JobsStatus(j, status, progress, message) ==
    [jobs EXCEPT ![j] = [@ EXCEPT !.status = status, !.progress = progress, !.message = message]]
\* A faulty variant of JobsProgress: the write reaches every entry of the registry.
JobsProgress_every_job(j, progress, message) ==
    [k \in DOMAIN jobs |-> [jobs[k] EXCEPT !.progress = progress, !.message = message]]
JobsProgress(j, progress, message) ==
    [jobs EXCEPT ![j] = [@ EXCEPT !.progress = progress, !.message = message]]
\* A faulty variant of JobsFailed: the handler forgets job.error.
JobsFailed_no_error(j, e, message) ==
    [jobs EXCEPT ![j] = [@ EXCEPT !.status = FAILED, !.message = message]]
JobsFailed(j, e, message) ==
    [jobs EXCEPT ![j] = [@ EXCEPT !.status = FAILED, !.error = e, !.message = message]]

TaskWrote(t, pc, progress) ==
    [tasks EXCEPT ![t] = [@ EXCEPT !.pc = pc, !.written = progress]]
TaskGoto(t, pc) ==
    [tasks EXCEPT ![t] = [@ EXCEPT !.pc = pc]]
TaskRaise(t, e) ==
    [tasks EXCEPT ![t] = [@ EXCEPT !.pc = "except", !.exc = e]]

\* tempfile.mkdtemp either creates the directory or raises OSError.
MkdtempOutcomes == {"ok", "raise"}
\* shutil.rmtree either removes the directory or raises.
RmtreeOutcomes == {"ok", "raise"}
\* analyze_video / generate_translation_draft: a result with segments, an
\* {"error": ...} result, or a non-transient exception re-raised by the retry loop.
AnalysisOutcomes == {"ok", "error", "raise"}

\* A faulty variant of Cleanup: the directory is removed only when the task
\* ended without an exception.
Cleanup_on_success_only(t, rm) ==
    /\ tasks' = [tasks EXCEPT ![t] =
                    [@ EXCEPT !.pc = "done",
                              !.temp_dir = IF @ = "exists" /\ rm = "ok" /\ tasks[t].exc = None
                                           THEN "removed" ELSE @,
                              !.rmtree_failed = (tasks[t].temp_dir = "exists" /\ rm = "raise"),
                              !.segments = <<>>, !.i = 0, !.audio_segments = <<>>]]
    /\ loop' = 0
    /\ resp' = NoResp
    /\ UNCHANGED <<call, cfg, jobs, job_results, history>>

\* A faulty variant of Cleanup: the removal is not guarded, so its failure
\* leaves the coroutine as an exception.
Cleanup_reraises(t, rm) ==
    /\ tasks' = [tasks EXCEPT ![t] =
                    [@ EXCEPT !.pc = "done",
                              !.temp_dir = IF @ = "exists" /\ rm = "ok" THEN "removed" ELSE @,
                              !.rmtree_failed = (tasks[t].temp_dir = "exists" /\ rm = "raise"),
                              !.escaped = IF tasks[t].temp_dir = "exists" /\ rm = "raise"
                                          THEN "OSError" ELSE @,
                              !.segments = <<>>, !.i = 0, !.audio_segments = <<>>]]
    /\ loop' = 0
    /\ resp' = NoResp
    /\ UNCHANGED <<call, cfg, jobs, job_results, history>>

\* `finally`: remove temp_dir if it was created and exists; a failure of the
\* removal is swallowed.  The coroutine then ends: its locals are gone and the
\* event loop is free.
Cleanup(t, rm) ==
    /\ tasks' = [tasks EXCEPT ![t] =
                    [@ EXCEPT !.pc = "done",
                              !.temp_dir = IF @ = "exists" /\ rm = "ok" THEN "removed" ELSE @,
                              !.rmtree_failed = (tasks[t].temp_dir = "exists" /\ rm = "raise"),
                              !.segments = <<>>, !.i = 0, !.audio_segments = <<>>]]
    /\ loop' = 0
    /\ resp' = NoResp
    /\ UNCHANGED <<call, cfg, jobs, job_results, history>>

\* ------------------------------------------------ services/tts_service.py
\* generate_segments_from_analysis: the loop head.  An empty text is skipped;
\* otherwise generate_audio_segment is awaited and the task is suspended.
TTS_Next(t) ==
    /\ t \in DOMAIN tasks
    /\ loop = t
    /\ tasks[t].pc = "tts"
    /\ LET i == tasks[t].i IN
       IF i > Len(tasks[t].segments)
       THEN /\ tasks' = TaskGoto(t, "tts_done")
            /\ loop' = t
       ELSE IF tasks[t].segments[i].translated_text = ""
       THEN /\ tasks' = [tasks EXCEPT ![t] = [@ EXCEPT !.i = i + 1]]
            /\ loop' = t
       ELSE /\ tasks' = TaskGoto(t, "tts_await")
            /\ loop' = 0
    /\ resp' = NoResp
    /\ UNCHANGED <<call, cfg, jobs, job_results, history>>

\* generate_audio_segment returns: success, or success = False for any
\* exception (the segment is then left out of the list without an error).
TTS_Return(t) ==
    /\ t \in DOMAIN tasks
    /\ loop = 0
    /\ tasks[t].pc = "tts_await"
    /\ \E success \in BOOLEAN :
        tasks' = [tasks EXCEPT ![t] =
                     [@ EXCEPT !.pc = "tts",
                               !.i = @ + 1,
                               !.audio_segments = IF success THEN Append(@, tasks[t].i) ELSE @]]
    /\ loop' = t
    /\ resp' = NoResp
    /\ UNCHANGED <<call, cfg, jobs, job_results, history>>

\* ------------------------------------- routes: process_finalize_dubbing
\* Frame of a step a running task takes without touching the registry.
TaskFrame == resp' = NoResp /\ UNCHANGED <<call, cfg, job_results, history>>

\* jobs.get, mkdtemp, then status UPLOADING at progress 5.
PFD_Begin(t) ==
    /\ Startable(t, PFD)
    /\ \E mk \in MkdtempOutcomes :
        IF mk = "ok"
        THEN /\ jobs' = JobsStatus(tasks[t].job_id, UPLOADING, PFD_progress_download,
                                   "Downloading video from S3...")
             /\ tasks' = [TaskWrote(t, "download", PFD_progress_download)
                             EXCEPT ![t].temp_dir = "exists"]
        ELSE /\ jobs' = jobs
             /\ tasks' = TaskRaise(t, "OSError")
    /\ loop' = t
    /\ TaskFrame

\* s3_service.download_file; an error result is raised as "Download failed".
PFD_Download(t) ==
    /\ Running(t, PFD, "download")
    /\ \E o \in RequestOutcomes(S3Outcomes, S3Configured) :
        LET download_result == download_file(o) IN
        IF download_result = "success"
        THEN /\ jobs' = JobsProgress(tasks[t].job_id, PFD_progress_downloaded,
                                     "Video downloaded, generating audio...")
             /\ tasks' = TaskWrote(t, "gen_audio", PFD_progress_downloaded)
        ELSE /\ jobs' = jobs
             /\ tasks' = TaskRaise(t, IF download_result = "error"
                                      THEN "Download failed" ELSE "BotoCoreError")
    /\ UNCHANGED loop
    /\ TaskFrame

\* status GENERATING_AUDIO at progress 20; the TTS loop starts at the first segment.
PFD_GenAudio(t) ==
    /\ Running(t, PFD, "gen_audio")
    /\ jobs' = JobsStatus(tasks[t].job_id, GENERATING_AUDIO, PFD_progress_audio,
                          "Generating localized voice audio from your edits...")
    /\ tasks' = [TaskWrote(t, "tts", PFD_progress_audio) EXCEPT ![t].i = 1]
    /\ UNCHANGED loop
    /\ TaskFrame

\* generate_segments_from_analysis returned: progress 50.
PFD_AudioDone(t) ==
    /\ Running(t, PFD, "tts_done")
    /\ jobs' = JobsProgress(tasks[t].job_id, PFD_progress_audio_done, "Generated audio segments")
    /\ tasks' = TaskWrote(t, "stitching", PFD_progress_audio_done)
    /\ UNCHANGED loop
    /\ TaskFrame

\* status STITCHING at progress 55.
PFD_Stitching(t) ==
    /\ Running(t, PFD, "stitching")
    /\ jobs' = JobsStatus(tasks[t].job_id, STITCHING, PFD_progress_stitching,
                          "Stitching new audio with video...")
    /\ tasks' = TaskWrote(t, "stitch", PFD_progress_stitching)
    /\ UNCHANGED loop
    /\ TaskFrame

\* ffmpeg_service.stitch_video(..., tts_delay_seconds=tts_delay): the keyword
\* names no parameter of stitch_video, so the call raises TypeError before the
\* body runs.  The statements after the call (progress 80 to the history
\* update) are reached only if the call binds.
PFD_Stitch(t) ==
    /\ Running(t, PFD, "stitch")
    /\ tasks' = IF CallBinds(stitch_video_keywords, stitch_video_parameters)
                THEN TaskGoto(t, "stitched")
                ELSE TaskRaise(t, "TypeError: unexpected keyword argument 'tts_delay_seconds'")
    /\ UNCHANGED <<jobs, loop>>
    /\ TaskFrame

\* except Exception: status FAILED, error and message from the exception.
PFD_Except(t) ==
    /\ Running(t, PFD, "except")
    /\ jobs' = JobsFailed(tasks[t].job_id, tasks[t].exc, "Processing failed")
    /\ tasks' = TaskGoto(t, IF tasks[t].user_id # None THEN "except_db" ELSE "finally")
    /\ UNCHANGED loop
    /\ TaskFrame

\* ... then, inside the handler, db_service.update_job_status(status="failed").
\* An exception raised here is not caught by anything in the coroutine.
PFD_ExceptDb(t) ==
    /\ Running(t, PFD, "except_db")
    /\ \E q \in RequestOutcomes(DbOutcomes, DBConfigured) :
        LET r == update_job_status(tasks[t].user_id, tasks[t].job_id, "failed", q) IN
        tasks' = [tasks EXCEPT ![t] =
                     [@ EXCEPT !.pc = "finally",
                               !.escaped = IF r.ret = "raise" THEN r.exc ELSE None]]
    /\ UNCHANGED <<jobs, loop>>
    /\ TaskFrame

PFD_Finally(t) ==
    /\ Running(t, PFD, "finally")
    /\ \E rm \in RmtreeOutcomes : Cleanup(t, rm)

\* ------------------- routes: process_finalize_dubbing after the stitch call
\* `if not stitch_result.success: raise`; otherwise progress 80.
PFD_Stitched(t) ==
    /\ Running(t, PFD, "stitched")
    /\ IF tasks[t].stitch_result.success
       THEN /\ jobs' = JobsProgress(tasks[t].job_id, PFD_progress_stitched, "Video stitched!")
            /\ tasks' = TaskWrote(t, "whatsapp", PFD_progress_stitched)
       ELSE /\ jobs' = jobs
            /\ tasks' = TaskRaise(t, "Video stitching failed")
    /\ UNCHANGED loop
    /\ TaskFrame

\* A faulty variant of NeedsWhatsApp: the comparison is not strict.
NeedsWhatsApp_at_threshold(file_size_mb) == file_size_mb >= WhatsAppThresholdMB
\* `if stitch_result.file_size_mb > 15`
NeedsWhatsApp(file_size_mb) == file_size_mb > WhatsAppThresholdMB

\* create_whatsapp_version catches every exception of its encode and reports
\* it as success = False.
WhatsAppOutcomes == {"success", "failed"}

\* The WhatsApp version is made only above the threshold; whatsapp_result
\* stays None otherwise.
PFD_WhatsApp(t) ==
    /\ Running(t, PFD, "whatsapp")
    /\ \E w \in RequestOutcomes(WhatsAppOutcomes, NeedsWhatsApp(tasks[t].stitch_result.file_size_mb)) :
        tasks' = [TaskGoto(t, "upload") EXCEPT ![t].whatsapp_result =
                     IF NeedsWhatsApp(tasks[t].stitch_result.file_size_mb)
                     THEN (IF FFmpegAvailable THEN w ELSE "failed")
                     ELSE None]
    /\ UNCHANGED <<jobs, loop>>
    /\ TaskFrame

\* s3_service.upload_file: {"success": ...}, {"error": ...}, or an exception
\* of boto3 that is no ClientError, which upload_file lets through.
upload_file(o) ==
    IF ~S3Configured THEN "error"
    ELSE IF o = "ok" THEN "success"
    ELSE IF o = "ClientError" THEN "error"
    ELSE "raise"

\* progress 90, then the primary upload; an error result is raised as
\* "Upload failed".
PFD_Upload(t) ==
    /\ Running(t, PFD, "upload")
    /\ \E o \in RequestOutcomes(S3Outcomes, S3Configured) :
        LET upload_result == upload_file(o)
            at90 == [TaskWrote(t, "whatsapp_upload", PFD_progress_upload)
                        EXCEPT ![t].uploaded = (upload_result = "success")]
        IN tasks' = IF upload_result = "success" THEN at90
                    ELSE [at90 EXCEPT ![t].pc = "except",
                                      ![t].exc = IF upload_result = "error"
                                                 THEN "Upload failed" ELSE "S3UploadFailedError"]
    /\ jobs' = JobsProgress(tasks[t].job_id, PFD_progress_upload,
                            "Uploading localized video to S3...")
    /\ UNCHANGED loop
    /\ TaskFrame

\* A faulty variant of PFD_WhatsAppUpload: an error result of the upload is
\* raised like the primary's.
PFD_WhatsAppUpload_fatal(t) ==
    /\ Running(t, PFD, "whatsapp_upload")
    /\ \E o \in RequestOutcomes(S3Outcomes, S3Configured /\ tasks[t].whatsapp_result = "success") :
        tasks' = IF tasks[t].whatsapp_result = "success" /\ upload_file(o) # "success"
                 THEN TaskRaise(t, "Upload failed")
                 ELSE TaskGoto(t, "complete")
    /\ UNCHANGED <<jobs, loop>>
    /\ TaskFrame

\* `if whatsapp_result and whatsapp_result.success`: upload the WhatsApp
\* version.  An error result leaves whatsapp_url None; an exception the upload
\* lets through is not caught here.
PFD_WhatsAppUpload(t) ==
    /\ Running(t, PFD, "whatsapp_upload")
    /\ \E o \in RequestOutcomes(S3Outcomes, S3Configured /\ tasks[t].whatsapp_result = "success") :
        LET whatsapp_upload == upload_file(o) IN
        tasks' = IF tasks[t].whatsapp_result # "success" THEN TaskGoto(t, "complete")
                 ELSE IF whatsapp_upload = "raise" THEN TaskRaise(t, "S3UploadFailedError")
                 ELSE [TaskGoto(t, "complete") EXCEPT ![t].whatsapp_url =
                          IF whatsapp_upload = "success" THEN "url" ELSE None]
    /\ UNCHANGED <<jobs, loop>>
    /\ TaskFrame

\* output_key = f"outputs/{job_id}/localized_{target_language}.mp4"
OutputKey(job_id, target_language) ==
    "outputs/" \o ToString(job_id) \o "/localized_" \o target_language \o ".mp4"

\* status COMPLETE, progress 100, output_file = output_key; job_results is
\* updated if the job has an entry.
PFD_Complete(t) ==
    /\ Running(t, PFD, "complete")
    /\ LET j == tasks[t].job_id IN
       /\ jobs' = [jobs EXCEPT ![j] =
                      [@ EXCEPT !.status = COMPLETE, !.progress = PFD_progress_complete,
                                !.output_file = OutputKey(j, jobs[j].target_language),
                                !.message = "Localization complete! Your video is ready."]]
       /\ job_results' = IF job_results[j] = NoResults THEN job_results
                         ELSE [job_results EXCEPT ![j] =
                                  [kind |-> @.kind, segments |-> @.segments,
                                   whatsapp_url |-> tasks[t].whatsapp_url,
                                   file_size_mb |-> tasks[t].stitch_result.file_size_mb]]
    /\ tasks' = TaskWrote(t, "vtt", PFD_progress_complete)
    /\ resp' = NoResp
    /\ UNCHANGED <<call, cfg, loop, history>>

\* How the subtitle block ends: the document is uploaded; building or writing
\* it raises; the upload returns an error result; the upload raises.
VttOutcomes == {"ok", "generate_raise", "upload_error", "upload_raise"}

\* A faulty variant of PFD_Vtt: the block has no try/except of its own.
PFD_Vtt_unguarded(t) ==
    /\ Running(t, PFD, "vtt")
    /\ \E v \in VttOutcomes :
        tasks' = IF v \in {"generate_raise", "upload_raise"}
                 THEN [TaskRaise(t, "VttError") EXCEPT ![t].vtt = v]
                 ELSE [TaskGoto(t, "update_db") EXCEPT ![t].vtt = v]
    /\ UNCHANGED <<jobs, loop>>
    /\ TaskFrame

\* The subtitle block, inside its own `try ... except Exception`: whatever
\* happens, the task goes on.  subtitle_s3_key is assigned before the upload
\* is called and its result is not read.
PFD_Vtt(t) ==
    /\ Running(t, PFD, "vtt")
    /\ \E v \in VttOutcomes :
        LET o == IF ~S3Configured /\ v = "ok" THEN "upload_error" ELSE v IN
        tasks' = [TaskGoto(t, IF tasks[t].user_id # None THEN "update_db" ELSE "finally")
                     EXCEPT ![t].vtt = o,
                            ![t].subtitle_s3_key = IF o = "generate_raise" THEN None ELSE "key"]
    /\ UNCHANGED <<jobs, loop>>
    /\ TaskFrame

\* db_service.update_job_status(status="complete"), inside the outer try.
PFD_UpdateDb(t) ==
    /\ Running(t, PFD, "update_db")
    /\ \E q \in RequestOutcomes(DbOutcomes, DBConfigured) :
        LET r == update_job_status(tasks[t].user_id, tasks[t].job_id, "complete", q) IN
        tasks' = IF r.ret = "raise" THEN TaskRaise(t, r.exc) ELSE TaskGoto(t, "finally")
    /\ UNCHANGED <<jobs, loop>>
    /\ TaskFrame

\* ------------------------------------- routes: process_localization_job
PLJ_Begin(t) ==
    /\ Startable(t, PLJ)
    /\ \E mk \in MkdtempOutcomes :
        IF mk = "ok"
        THEN /\ jobs' = JobsStatus(tasks[t].job_id, UPLOADING, PLJ_progress_download,
                                   "Downloading video from S3...")
             /\ tasks' = [TaskWrote(t, "download", PLJ_progress_download)
                             EXCEPT ![t].temp_dir = "exists"]
        ELSE /\ jobs' = jobs
             /\ tasks' = TaskRaise(t, "OSError")
    /\ loop' = t
    /\ TaskFrame

PLJ_Download(t) ==
    /\ Running(t, PLJ, "download")
    /\ \E o \in RequestOutcomes(S3Outcomes, S3Configured) :
        LET download_result == download_file(o) IN
        IF download_result = "success"
        THEN /\ jobs' = JobsProgress(tasks[t].job_id, PLJ_progress_downloaded,
                                     "Video downloaded successfully")
             /\ tasks' = TaskWrote(t, "analyzing", PLJ_progress_downloaded)
        ELSE /\ jobs' = jobs
             /\ tasks' = TaskRaise(t, IF download_result = "error"
                                      THEN "Download failed" ELSE "BotoCoreError")
    /\ UNCHANGED loop
    /\ TaskFrame

PLJ_Analyzing(t) ==
    /\ Running(t, PLJ, "analyzing")
    /\ jobs' = JobsStatus(tasks[t].job_id, ANALYZING, PLJ_progress_analyzing,
                          "Gemini is watching and understanding your video...")
    /\ tasks' = TaskWrote(t, "analyze", PLJ_progress_analyzing)
    /\ UNCHANGED loop
    /\ TaskFrame

\* await gemini_service.analyze_video (blocking calls only: no suspension);
\* on success progress 40 and the analysis is stored in job_results.
PLJ_Analyze(t) ==
    /\ Running(t, PLJ, "analyze")
    /\ \E a \in AnalysisOutcomes, segments \in SegLists :
        IF a = "ok"
        THEN /\ jobs' = JobsProgress(tasks[t].job_id, PLJ_progress_analyzed, "Analysis complete!")
             /\ tasks' = [TaskWrote(t, "gen_audio", PLJ_progress_analyzed)
                             EXCEPT ![t].segments = segments]
             /\ job_results' = [job_results EXCEPT ![tasks[t].job_id] =
                                   [kind |-> "analysis", segments |-> segments]]
        ELSE /\ jobs' = jobs
             /\ tasks' = TaskRaise(t, IF a = "error" THEN "Analysis failed" ELSE "GeminiError")
             /\ job_results' = job_results
    /\ resp' = NoResp
    /\ UNCHANGED <<call, cfg, loop, history>>

PLJ_GenAudio(t) ==
    /\ Running(t, PLJ, "gen_audio")
    /\ jobs' = JobsStatus(tasks[t].job_id, GENERATING_AUDIO, PLJ_progress_audio,
                          "Generating localized voice audio...")
    /\ tasks' = [TaskWrote(t, "tts", PLJ_progress_audio) EXCEPT ![t].i = 1]
    /\ UNCHANGED loop
    /\ TaskFrame

PLJ_AudioDone(t) ==
    /\ Running(t, PLJ, "tts_done")
    /\ jobs' = JobsProgress(tasks[t].job_id, PLJ_progress_audio_done, "Generated audio segments")
    /\ tasks' = TaskWrote(t, "stitching", PLJ_progress_audio_done)
    /\ UNCHANGED loop
    /\ TaskFrame

PLJ_Stitching(t) ==
    /\ Running(t, PLJ, "stitching")
    /\ jobs' = JobsStatus(tasks[t].job_id, STITCHING, PLJ_progress_stitching,
                          "Stitching new audio with video...")
    /\ tasks' = TaskWrote(t, "stitch", PLJ_progress_stitching)
    /\ UNCHANGED loop
    /\ TaskFrame

\* The same call as in process_finalize_dubbing, with the same keyword.
PLJ_Stitch(t) ==
    /\ Running(t, PLJ, "stitch")
    /\ tasks' = IF CallBinds(stitch_video_keywords, stitch_video_parameters)
                THEN TaskGoto(t, "stitched")
                ELSE TaskRaise(t, "TypeError: unexpected keyword argument 'tts_delay_seconds'")
    /\ UNCHANGED <<jobs, loop>>
    /\ TaskFrame

\* except Exception: status FAILED; this function makes no history update here.
PLJ_Except(t) ==
    /\ Running(t, PLJ, "except")
    /\ jobs' = JobsFailed(tasks[t].job_id, tasks[t].exc, "Processing failed")
    /\ tasks' = TaskGoto(t, "finally")
    /\ UNCHANGED loop
    /\ TaskFrame

PLJ_Finally(t) ==
    /\ Running(t, PLJ, "finally")
    /\ \E rm \in RmtreeOutcomes : Cleanup(t, rm)

\* --------------------------------------- routes: process_draft_creation
PDC_Begin(t) ==
    /\ Startable(t, PDC)
    /\ \E mk \in MkdtempOutcomes :
        IF mk = "ok"
        THEN /\ jobs' = JobsStatus(tasks[t].job_id, UPLOADING, PDC_progress_download,
                                   "Downloading video from S3...")
             /\ tasks' = [TaskWrote(t, "download", PDC_progress_download)
                             EXCEPT ![t].temp_dir = "exists"]
        ELSE /\ jobs' = jobs
             /\ tasks' = TaskRaise(t, "OSError")
    /\ loop' = t
    /\ TaskFrame

PDC_Download(t) ==
    /\ Running(t, PDC, "download")
    /\ \E o \in RequestOutcomes(S3Outcomes, S3Configured) :
        LET download_result == download_file(o) IN
        IF download_result = "success"
        THEN /\ jobs' = JobsProgress(tasks[t].job_id, PDC_progress_downloaded,
                                     "Video downloaded, starting AI analysis...")
             /\ tasks' = TaskWrote(t, "analyzing", PDC_progress_downloaded)
        ELSE /\ jobs' = jobs
             /\ tasks' = TaskRaise(t, IF download_result = "error"
                                      THEN "Download failed" ELSE "BotoCoreError")
    /\ UNCHANGED loop
    /\ TaskFrame

PDC_Analyzing(t) ==
    /\ Running(t, PDC, "analyzing")
    /\ jobs' = JobsStatus(tasks[t].job_id, ANALYZING, PDC_progress_analyzing,
                          "Gemini is analyzing and translating your video...")
    /\ tasks' = TaskWrote(t, "analyze", PDC_progress_analyzing)
    /\ UNCHANGED loop
    /\ TaskFrame

\* await gemini_service.generate_translation_draft; on success progress 90
\* and the draft is stored in job_results.
PDC_Analyze(t) ==
    /\ Running(t, PDC, "analyze")
    /\ \E a \in AnalysisOutcomes, segments \in SegLists :
        IF a = "ok"
        THEN /\ jobs' = JobsProgress(tasks[t].job_id, PDC_progress_segments,
                                     "Found segments. Ready for review!")
             /\ tasks' = [TaskWrote(t, "complete", PDC_progress_segments)
                             EXCEPT ![t].segments = segments]
             /\ job_results' = [job_results EXCEPT ![tasks[t].job_id] =
                                   [kind |-> "draft", segments |-> segments]]
        ELSE /\ jobs' = jobs
             /\ tasks' = TaskRaise(t, IF a = "error" THEN "Analysis failed" ELSE "GeminiError")
             /\ job_results' = job_results
    /\ resp' = NoResp
    /\ UNCHANGED <<call, cfg, loop, history>>

\* status COMPLETE at progress 100, written before the history save.
PDC_Complete(t) ==
    /\ Running(t, PDC, "complete")
    /\ jobs' = JobsStatus(tasks[t].job_id, COMPLETE, PDC_progress_complete,
                          "Draft ready! Review and edit translations before finalizing.")
    /\ tasks' = TaskWrote(t, IF tasks[t].user_id # None THEN "save" ELSE "finally",
                          PDC_progress_complete)
    /\ UNCHANGED loop
    /\ TaskFrame

\* db_service.save_video(status="needs_review"), still inside the try block:
\* an exception it lets through is handled by `except Exception`.
PDC_Save(t) ==
    /\ Running(t, PDC, "save")
    /\ \E p \in RequestOutcomes(DbOutcomes, DBConfigured) :
        LET r == save_video(tasks[t].user_id, tasks[t].job_id, "needs_review", p) IN
        /\ history' = r.history
        /\ tasks' = IF r.ret = "raise" THEN TaskRaise(t, r.exc) ELSE TaskGoto(t, "finally")
    /\ resp' = NoResp
    /\ UNCHANGED <<call, cfg, jobs, job_results, loop>>

PDC_Except(t) ==
    /\ Running(t, PDC, "except")
    /\ jobs' = JobsFailed(tasks[t].job_id, tasks[t].exc, "Analysis failed")
    /\ tasks' = TaskGoto(t, "finally")
    /\ UNCHANGED loop
    /\ TaskFrame

PDC_Finally(t) ==
    /\ Running(t, PDC, "finally")
    /\ \E rm \in RmtreeOutcomes : Cleanup(t, rm)

\* ------------------------------------------------------- specifications
TaskIds == 1..MaxTasks

\* The program as it is wired: POST /localize schedules
\* process_localization_job, POST /finalize schedules process_finalize_dubbing.
\* The steps of process_finalize_dubbing after the download need a history
\* item, which only process_draft_creation writes: they are in NextDraft.
Next ==
    \/ start_localization
    \/ finalize_dubbing
    \/ get_job_status
    \/ delete_video
    \/ \E t \in TaskIds : PLJ_Begin(t)
    \/ \E t \in TaskIds : PLJ_Download(t)
    \/ \E t \in TaskIds : PLJ_Analyzing(t)
    \/ \E t \in TaskIds : PLJ_Analyze(t)
    \/ \E t \in TaskIds : PLJ_GenAudio(t)
    \/ \E t \in TaskIds : TTS_Next(t)
    \/ \E t \in TaskIds : TTS_Return(t)
    \/ \E t \in TaskIds : PLJ_AudioDone(t)
    \/ \E t \in TaskIds : PLJ_Stitching(t)
    \/ \E t \in TaskIds : PLJ_Stitch(t)
    \/ \E t \in TaskIds : PLJ_Except(t)
    \/ \E t \in TaskIds : PLJ_Finally(t)
    \/ \E t \in TaskIds : PFD_Begin(t)
    \/ \E t \in TaskIds : PFD_Download(t)
    \/ \E t \in TaskIds : PFD_Except(t)
    \/ \E t \in TaskIds : PFD_ExceptDb(t)
    \/ \E t \in TaskIds : PFD_Finally(t)

Spec == Init /\ [][Next]_vars

\* process_draft_creation run as the background task of a registered job, with
\* the arguments its signature allows (user_id is Optional), followed by the
\* requests a client makes on that job.
InitDraft ==
    /\ cfg \in [aws : BOOLEAN, bucket : BOOLEAN, ffmpeg : BOOLEAN]
    /\ jobs = <<LocalizationJob(FileKey, Language)>>
    /\ job_results = [j \in 1..MaxJobs |-> NoResults]
    /\ \E user_id \in Users \cup {None} : tasks = <<Task(PDC, 1, <<>>, user_id)>>
    /\ loop = 0
    /\ history = {}
    /\ resp = NoResp
    /\ call = NoCall

NextDraft ==
    \/ finalize_dubbing
    \/ get_job_status
    \/ delete_video
    \/ \E t \in TaskIds : PDC_Begin(t)
    \/ \E t \in TaskIds : PDC_Download(t)
    \/ \E t \in TaskIds : PDC_Analyzing(t)
    \/ \E t \in TaskIds : PDC_Analyze(t)
    \/ \E t \in TaskIds : PDC_Complete(t)
    \/ \E t \in TaskIds : PDC_Save(t)
    \/ \E t \in TaskIds : PDC_Except(t)
    \/ \E t \in TaskIds : PDC_Finally(t)
    \/ \E t \in TaskIds : PFD_Begin(t)
    \/ \E t \in TaskIds : PFD_Download(t)
    \/ \E t \in TaskIds : PFD_GenAudio(t)
    \/ \E t \in TaskIds : TTS_Next(t)
    \/ \E t \in TaskIds : TTS_Return(t)
    \/ \E t \in TaskIds : PFD_AudioDone(t)
    \/ \E t \in TaskIds : PFD_Stitching(t)
    \/ \E t \in TaskIds : PFD_Stitch(t)
    \/ \E t \in TaskIds : PFD_Except(t)
    \/ \E t \in TaskIds : PFD_ExceptDb(t)
    \/ \E t \in TaskIds : PFD_Finally(t)

SpecDraft == InitDraft /\ [][NextDraft]_vars

\* The statements of process_finalize_dubbing that follow the stitch call,
\* started with each result stitch_video can return to a task that got that
\* far: S3 is configured (the download succeeded), FFmpeg is installed (the
\* request was accepted), the job is STITCHING at 55, and stitch_video
\* succeeds only if at least one audio file was passed.  The job's error is
\* None, or what an earlier run of this task left there: POST /finalize
\* accepts a FAILED job and its reset does not touch job.error.  The sizes
\* tried lie below, at and above the WhatsApp threshold.
InitStitched ==
    /\ cfg = [aws |-> TRUE, bucket |-> TRUE, ffmpeg |-> TRUE]
    /\ \E error \in {None, "Download failed"} :
          jobs = <<[LocalizationJob(FileKey, Language) EXCEPT
                      !.status = STITCHING, !.progress = PFD_progress_stitching,
                      !.message = "Stitching new audio with video...",
                      !.error = error]>>
    /\ \E kind \in {None, "draft"} :
          job_results = [j \in 1..MaxJobs |->
                            IF j = 1 /\ kind # None
                            THEN [kind |-> kind, segments |-> <<>>] ELSE NoResults]
    /\ \E segs \in SegLists \ {<<>>}, success \in BOOLEAN,
          size \in {WhatsAppThresholdMB - 1, WhatsAppThresholdMB, WhatsAppThresholdMB + 1} :
          LET spoken == SelectSeq([i \in 1..Len(segs) |-> i],
                                  LAMBDA i : segs[i].translated_text # "")
          IN /\ success => spoken # <<>>
             /\ tasks = <<[Task(PFD, 1, segs, "u1") EXCEPT
                             !.pc = "stitched", !.temp_dir = "exists",
                             !.i = Len(segs) + 1, !.audio_segments = spoken,
                             !.written = PFD_progress_stitching,
                             !.stitch_result = IF success THEN ProcessingResult(TRUE, size)
                                               ELSE ProcessingResult(FALSE, 0)]>>
    /\ loop = 1
    /\ history \in {{}, {[PK |-> "u1", job_id |-> 1, status |-> "needs_review"]}}
    /\ resp = NoResp
    /\ call = NoCall

NextStitched ==
    \/ \E t \in TaskIds : PFD_Stitched(t)
    \/ \E t \in TaskIds : PFD_WhatsApp(t)
    \/ \E t \in TaskIds : PFD_Upload(t)
    \/ \E t \in TaskIds : PFD_WhatsAppUpload(t)
    \/ \E t \in TaskIds : PFD_Complete(t)
    \/ \E t \in TaskIds : PFD_Vtt(t)
    \/ \E t \in TaskIds : PFD_UpdateDb(t)
    \/ \E t \in TaskIds : PFD_Except(t)
    \/ \E t \in TaskIds : PFD_ExceptDb(t)
    \/ \E t \in TaskIds : PFD_Finally(t)
    \/ get_job_status

SpecStitched == InitStitched /\ [][NextStitched]_vars

\* ------------------------------------------- service calls, one at a time
\* The variable `call` holds one call of a service function or of a block of
\* a task: its arguments, its position and what it produced.  The other
\* variables do not change while a call runs.
CallFrame == UNCHANGED <<cfg, jobs, job_results, tasks, loop, history, resp>>

Max(a, b) == IF a >= b THEN a ELSE b

\* ---- services/ffmpeg_service.py: create_whatsapp_version
NoBitrate == 0 - 1

\* int((target_size_mb * 8192) / duration) - 128, then max(.., 200)
target_bitrate(target_size_tenths, duration) ==
    Max(((target_size_tenths * 8192) \div (10 * duration)) - 128, 200)

create_whatsapp_version ==
    /\ call.fn = "create_whatsapp_version"
    /\ call.pc = "called"
    /\ \E encode \in WhatsAppOutcomes :
          LET duration == IF call.info.error THEN 60 ELSE call.info.duration   \* info.get('duration', 60)
          IN call' =
                IF ~FFmpegAvailable
                THEN [call EXCEPT !.pc = "returned", !.success = FALSE,
                                  !.result = MediaFailure(call.output_path, "FFmpeg not installed")]
                ELSE IF duration = 0    \* ZeroDivisionError, caught
                THEN [call EXCEPT !.pc = "returned", !.success = FALSE,
                                  !.result = MediaFailure(call.output_path, "division by zero")]
                ELSE [call EXCEPT !.pc = "returned",
                                  !.video_bitrate = target_bitrate(call.target_size_mb, duration),
                                  !.success = (encode = "success"),
                                  !.result = IF encode = "success"
                                             THEN MediaSuccess(call.output_path)
                                             ELSE MediaFailure(call.output_path, "encode failed")]
    /\ CallFrame

\* target_size_mb in tenths of a megabyte: 14.5 (routes) and 15.0 (default).
\* info is what get_video_info returns for the input: an error dict (no
\* 'duration' key) or a duration in seconds; 0 is the value it gives when
\* ffprobe reports none.
WhatsAppCalls ==
    {[fn |-> "create_whatsapp_version", pc |-> "called", target_size_mb |-> ts,
      info |-> info, video_bitrate |-> NoBitrate, success |-> FALSE,
      output_path |-> "output_whatsapp.mp4", result |-> NoResult] :
        ts \in {145, 150},
        info \in {[error |-> TRUE, duration |-> 0]}
                    \cup {[error |-> FALSE, duration |-> d] : d \in {0, 1, 60, 116, 600}}}

\* ---- approved segments with their times, in units of 1/10000 s
\* translated_text as sent: empty, whitespace only, or words; the times:
\* 2 s .. 5 s, 3.2 s .. 59.9996 s, 0 s .. 2 s
ApprovedSegments ==
    {[translated_text |-> x, start |-> sp[1], end |-> sp[2]] :
        x \in {"", " ", "t"},
        sp \in {<<20000, 50000>>, <<32000, 599996>>, <<0, 20000>>}}
MaxApproved == 2
ApprovedLists == UNION {[1..n -> ApprovedSegments] : n \in 1..MaxApproved}

\* ---- routes: the stitch_video call of process_finalize_dubbing
tts_delay(approved_segments) ==
    IF approved_segments = <<>> THEN 0 ELSE approved_segments[1].start

NoOffset == 0 - 1

\* stitch_video concatenates the audio files and muxes the result with the
\* video stream, both inputs from time 0: the track starts at 0.
stitch_video ==
    /\ call.fn = "stitch_video"
    /\ call.pc = "called"
    /\ call' = IF CallBinds(call.keywords, stitch_video_parameters)
               THEN [call EXCEPT !.pc = "returned", !.audio_offset = 0]
               ELSE [call EXCEPT !.pc = "raised", !.exc = "TypeError"]
    /\ CallFrame

StitchCalls ==
    {[fn |-> "stitch_video", pc |-> "called", approved_segments |-> segs,
      keywords |-> stitch_video_keywords, tts_delay_seconds |-> tts_delay(segs),
      audio_offset |-> NoOffset, exc |-> None] : segs \in ApprovedLists}

\* ---- routes: the subtitle block of process_finalize_dubbing
strip(text) == IF text = " " THEN "" ELSE text

Pad2(n) == IF n < 10 THEN "0" \o ToString(n) ELSE ToString(n)
Pad3(n) == IF n < 10 THEN "00" \o ToString(n)
           ELSE IF n < 100 THEN "0" \o ToString(n) ELSE ToString(n)

\* format_vtt_time: hours and minutes by integer division, the seconds that
\* remain formatted with `06.3f`, which rounds them to the millisecond (no
\* time used here lies on a tie).
format_vtt_time(seconds) ==
    LET h == seconds \div 36000000
        m == (seconds % 36000000) \div 600000
        s == seconds % 600000
        ms == (s + 5) \div 10
    IN Pad2(h) \o ":" \o Pad2(m) \o ":" \o Pad2(ms \div 1000) \o "." \o Pad3(ms % 1000)

RECURSIVE vtt_blocks(_, _)
vtt_blocks(approved_segments, idx) ==
    IF idx > Len(approved_segments) THEN <<>>
    ELSE LET seg == approved_segments[idx]
             text == strip(seg.translated_text)
         IN (IF text = "" THEN <<>>
             ELSE <<ToString(idx),
                    format_vtt_time(seg.start) \o " --> " \o format_vtt_time(seg.end),
                    text, "">>)
            \o vtt_blocks(approved_segments, idx + 1)

vtt_lines(approved_segments) == <<"WEBVTT", "">> \o vtt_blocks(approved_segments, 1)

PFD_VttLines ==
    /\ call.fn = "vtt"
    /\ call.pc = "called"
    /\ call' = [call EXCEPT !.pc = "returned",
                            !.vtt_lines = vtt_lines(call.approved_segments)]
    /\ CallFrame

VttCalls ==
    {[fn |-> "vtt", pc |-> "called", approved_segments |-> segs, vtt_lines |-> <<>>] :
        segs \in ApprovedLists}

\* ---- services/gemini_service.py: the retry loop of analyze_video
MAX_RETRIES == 10
INITIAL_RETRY_DELAY_SECONDS == 5
\* generate_content returns, raises an error whose text names a rate limit,
\* a quota or an overload, or raises another error
GenerateOutcomes == {"ok", "transient", "error"}

retry_delay_constant(attempt) == INITIAL_RETRY_DELAY_SECONDS + 0 * attempt
retry_delay(attempt) == INITIAL_RETRY_DELAY_SECONDS * (2 ^ attempt)

\* A faulty variant of analyze_video_attempt: an error that is not transient
\* is retried like a transient one.
analyze_video_attempt_retries_error ==
    /\ call.fn = "analyze_video"
    /\ call.pc = "attempt"
    /\ call.attempt < MAX_RETRIES
    /\ \E o \in GenerateOutcomes :
          LET made == [call EXCEPT !.calls = @ + 1]
          IN call' =
                CASE o = "ok" -> [made EXCEPT !.pc = "returned", !.result = "response"]
                  [] o = "error" ->
                        [made EXCEPT !.result = "exception",
                                     !.sleeps = Append(@, retry_delay(call.attempt)),
                                     !.attempt = @ + 1]
                  [] o = "transient" ->
                        IF call.attempt < MAX_RETRIES - 1
                        THEN [made EXCEPT !.sleeps = Append(@, retry_delay(call.attempt)),
                                          !.attempt = @ + 1]
                        ELSE [made EXCEPT !.pc = "returned", !.result = "quota_error"]
    /\ CallFrame

analyze_video_attempt ==
    /\ call.fn = "analyze_video"
    /\ call.pc = "attempt"
    /\ call.attempt < MAX_RETRIES
    /\ \E o \in GenerateOutcomes :
          LET made == [call EXCEPT !.calls = @ + 1]
          IN call' =
                CASE o = "ok" -> [made EXCEPT !.pc = "returned", !.result = "response"]
                  [] o = "error" -> [made EXCEPT !.pc = "raised", !.result = "exception"]
                  [] o = "transient" ->
                        IF call.attempt < MAX_RETRIES - 1
                        THEN [made EXCEPT !.sleeps = Append(@, retry_delay(call.attempt)),
                                          !.attempt = @ + 1]
                        ELSE [made EXCEPT !.pc = "returned", !.result = "quota_error"]
    /\ CallFrame

\* One call of each: create_whatsapp_version, the stitch call of the route,
\* the subtitle block, and analyze_video at the head of its retry loop.
InitCall ==
    /\ cfg \in [aws : {TRUE}, bucket : {TRUE}, ffmpeg : BOOLEAN]
    /\ jobs = <<>>
    /\ job_results = [j \in 1..MaxJobs |-> NoResults]
    /\ tasks = <<>>
    /\ loop = 0
    /\ history = {}
    /\ resp = NoResp
    /\ call \in WhatsAppCalls \cup StitchCalls \cup VttCalls
                \cup {[fn |-> "analyze_video", pc |-> "attempt", attempt |-> 0, calls |-> 0,
                       sleeps |-> <<>>, result |-> None]}

NextCall ==
    \/ create_whatsapp_version
    \/ stitch_video
    \/ PFD_VttLines
    \/ analyze_video_attempt

SpecCall == InitCall /\ [][NextCall]_vars

\* ------------------- Phase 1 from its analysis step on (process_draft_creation)
\* What the AI returns for a segment: its text and whatever else the model
\* chose to put in the object, here a claim of approval.
AnalysisSegLists ==
    UNION {[1..n -> [translated_text : Texts, is_approved : BOOLEAN]] : n \in 0..MaxSegs}

\* The state (video_file.state.name) of the file uploaded to the AI service.
FileStates == {"PROCESSING", "ACTIVE", "FAILED"}

\* Where the `while video_file.state.name == "PROCESSING"` test leads.
AfterFileState(frame, state) ==
    IF state = "PROCESSING" THEN [frame EXCEPT !.pc = "poll_sleep", !.file_state = state]
    ELSE IF state = "FAILED"
    THEN [frame EXCEPT !.pc = "returned", !.file_state = state, !.result = "processing_failed"]
    ELSE [frame EXCEPT !.pc = "attempt", !.file_state = state]

\* is_configured, then client.files.upload inside `try`: any exception is
\* returned as {"error": "Failed to upload video: ..."}.
analyze_video_upload ==
    /\ call.fn = "analyze_video"
    /\ call.pc = "called"
    /\ \E configured \in BOOLEAN, u \in {"ok", "raise"}, state \in FileStates :
          call' = IF ~configured
                  THEN [call EXCEPT !.pc = "returned", !.result = "not_configured"]
                  ELSE IF u = "raise"
                  THEN [call EXCEPT !.pc = "returned", !.result = "upload_failed"]
                  ELSE AfterFileState(call, state)
    /\ CallFrame

\* time.sleep(2) in the body of the wait loop.
analyze_video_sleep ==
    /\ call.fn = "analyze_video"
    /\ call.pc = "poll_sleep"
    /\ call' = [call EXCEPT !.pc = "poll_get"]
    /\ CallFrame

\* client.files.get, then the loop test again.  The loop has no bound and no
\* deadline: it ends only when the service reports another state.
analyze_video_get ==
    /\ call.fn = "analyze_video"
    /\ call.pc = "poll_get"
    /\ \E g \in {"ok", "raise"}, state \in FileStates :
          call' = IF g = "raise"
                  THEN [call EXCEPT !.pc = "returned", !.result = "upload_failed"]
                  ELSE AfterFileState(call, state)
    /\ CallFrame

\* generate_translation_draft: one draft segment per segment of the analysis,
\* in order, each built anew with is_approved False.
draft_segments(segments) ==
    [i \in 1..Len(segments) |->
        [index |-> i - 1, translated_text |-> segments[i].translated_text,
         is_approved |-> FALSE]]

\* `if "error" in draft_result`
IsErrorResult_never(result) == result # result
IsErrorResult(result) == result # "response"

\* await gemini_service.generate_translation_draft(...): analyze_video is entered.
PDC_AnalyzeCall(t) ==
    /\ Running(t, PDC, "analyze")
    /\ call = NoCall
    /\ call' = [fn |-> "analyze_video", pc |-> "called", file_state |-> None,
                attempt |-> 0, calls |-> 0, sleeps |-> <<>>, result |-> None,
                segments |-> <<>>]
    /\ tasks' = TaskGoto(t, "in_analysis")
    /\ resp' = NoResp
    /\ UNCHANGED <<cfg, jobs, job_results, loop, history>>

\* analyze_video has ended.  An exception it re-raised passes through
\* generate_translation_draft; an {"error": ...} result is raised as
\* "Analysis failed"; a response is parsed (json.loads) and normalised, then
\* progress 90 and the draft is stored in job_results.
PDC_AnalyzeReturn(t) ==
    /\ Running(t, PDC, "in_analysis")
    /\ call.fn = "analyze_video"
    /\ call.pc \in {"returned", "raised"}
    /\ \E parsed \in RequestOutcomes({"ok", "JSONDecodeError"},
                                     call.pc = "returned" /\ call.result = "response"),
          segments \in AnalysisSegLists :
        LET result == IF parsed = "ok" THEN call.result ELSE "parse_failed" IN
        IF call.pc = "raised"
        THEN /\ tasks' = TaskRaise(t, "GeminiError")
             /\ UNCHANGED <<jobs, job_results>>
             /\ call' = [call EXCEPT !.pc = "raised_out"]
        ELSE IF IsErrorResult(result)
        THEN /\ tasks' = TaskRaise(t, "Analysis failed: " \o result)
             /\ UNCHANGED <<jobs, job_results>>
             /\ call' = [call EXCEPT !.pc = "returned_out", !.result = result]
        ELSE /\ jobs' = JobsProgress(tasks[t].job_id, PDC_progress_segments,
                                     "Found segments. Ready for review!")
             /\ tasks' = [TaskWrote(t, "complete", PDC_progress_segments)
                             EXCEPT ![t].segments = draft_segments(segments)]
             /\ job_results' = [job_results EXCEPT ![tasks[t].job_id] =
                                   [kind |-> "draft", segments |-> draft_segments(segments)]]
             /\ call' = [call EXCEPT !.pc = "returned_out", !.segments = segments]
    /\ resp' = NoResp
    /\ UNCHANGED <<cfg, loop, history>>

\* The task of a registered job stands before its analysis: the download
\* succeeded (S3 is configured), the job is ANALYZING at 30.
InitAnalysis ==
    /\ cfg \in [aws : {TRUE}, bucket : {TRUE}, ffmpeg : BOOLEAN]
    /\ jobs = <<[LocalizationJob(FileKey, Language) EXCEPT
                    !.status = ANALYZING, !.progress = PDC_progress_analyzing,
                    !.message = "Gemini is analyzing and translating your video..."]>>
    /\ job_results = [j \in 1..MaxJobs |-> NoResults]
    /\ \E user_id \in Users \cup {None} :
          tasks = <<[Task(PDC, 1, <<>>, user_id) EXCEPT
                        !.pc = "analyze", !.temp_dir = "exists",
                        !.written = PDC_progress_analyzing]>>
    /\ loop = 1
    /\ history = {}
    /\ resp = NoResp
    /\ call = NoCall

NextAnalysis ==
    \/ \E t \in TaskIds : PDC_AnalyzeCall(t)
    \/ analyze_video_upload
    \/ analyze_video_sleep
    \/ analyze_video_get
    \/ analyze_video_attempt
    \/ \E t \in TaskIds : PDC_AnalyzeReturn(t)
    \/ \E t \in TaskIds : PDC_Complete(t)
    \/ \E t \in TaskIds : PDC_Save(t)
    \/ \E t \in TaskIds : PDC_Except(t)
    \/ \E t \in TaskIds : PDC_Finally(t)

SpecAnalysis == InitAnalysis /\ [][NextAnalysis]_vars

\* Every step of the task and of the calls it makes is taken once it can be:
\* each single call returns.
SpecAnalysisFair == SpecAnalysis /\ WF_vars(NextAnalysis)

\* ------------------------------- DELETE /{job_id} on a table with records
\* The table holds records of the caller and of another user, at most one
\* per user and job.
OtherUsers == {"u2"}
InitDelete ==
    /\ cfg \in [aws : BOOLEAN, bucket : {TRUE}, ffmpeg : {TRUE}]
    /\ jobs = <<>>
    /\ job_results = [j \in 1..MaxJobs |-> NoResults]
    /\ tasks = <<>>
    /\ loop = 0
    /\ history \in {H \in SUBSET [PK : Users \cup OtherUsers, job_id : RequestJobIds,
                                   status : {"needs_review", "complete"}] :
                      \A r1, r2 \in H : (r1.PK = r2.PK /\ r1.job_id = r2.job_id) => r1 = r2}
    /\ resp = NoResp
    /\ call = NoCall

NextDelete ==
    \/ delete_video
    \/ get_job_status

SpecDelete == InitDelete /\ [][NextDelete]_vars

\* ------------- services/ffmpeg_service.py: the media operations, step by step
\* The frame of mute_video, concatenate_audio_segments or stitch_video.
\* audio_segments: for each dict passed to stitch_video, whether it has a
\* file_path.  audio_files: the number of paths concatenate_audio_segments
\* gets.  temp_dir, concat_dir: the directories stitch_video and
\* concatenate_audio_segments make for themselves (None | "exists" | "removed").
MediaFrame(fn, pc, audio_segments, audio_files) ==
    [fn |-> fn, pc |-> pc, output_path |-> "out.mp4",
     audio_segments |-> audio_segments, audio_files |-> audio_files,
     temp_dir |-> None, concat_dir |-> None,
     concat_result |-> NoResult, result |-> NoResult]

MaxAudio == 2

\* ffmpeg's run: it ends, raises ffmpeg.Error, or raises something else.
RunOutcomes == {"ok", "ffmpeg.Error", "raise"}

\* mute_video catches ffmpeg.Error only.
mute_video ==
    /\ call.fn = "mute_video"
    /\ call.pc = "called"
    /\ \E run \in RequestOutcomes(RunOutcomes, FFmpegAvailable) :
          call' = IF ~FFmpegAvailable
                  THEN [call EXCEPT !.pc = "returned",
                                    !.result = MediaFailure(call.output_path, "FFmpeg not installed")]
                  ELSE IF run = "ok"
                  THEN [call EXCEPT !.pc = "returned", !.result = MediaSuccess(call.output_path)]
                  ELSE IF run = "ffmpeg.Error"
                  THEN [call EXCEPT !.pc = "returned",
                                    !.result = MediaFailure(call.output_path, "ffmpeg.Error")]
                  ELSE [call EXCEPT !.pc = "raised"]
    /\ CallFrame

\* concatenate_audio_segments returns `r`: to its caller, or to stitch_video
\* as concat_result.
ConcatReturn(frame, r) ==
    IF frame.fn = "concatenate_audio_segments"
    THEN [frame EXCEPT !.pc = "returned", !.result = r]
    ELSE [frame EXCEPT !.pc = "concat_returned", !.concat_result = r]

\* The two early returns, then tempfile.mkdtemp inside `try`.
concatenate_audio_segments ==
    /\ call.fn \in {"concatenate_audio_segments", "FFmpegService.stitch_video"}
    /\ call.pc = "concat_called"
    /\ \E mk \in RequestOutcomes(MkdtempOutcomes, FFmpegAvailable /\ call.audio_files > 0) :
          call' = IF ~FFmpegAvailable
                  THEN ConcatReturn(call, MediaFailure(call.output_path, "FFmpeg not installed"))
                  ELSE IF call.audio_files = 0
                  THEN ConcatReturn(call, MediaFailure(call.output_path, "No audio files provided"))
                  ELSE IF mk = "raise"
                  THEN ConcatReturn(call, MediaFailure(call.output_path, "OSError"))
                  ELSE [call EXCEPT !.pc = "concat_run", !.concat_dir = "exists"]
    /\ CallFrame

\* The concat file is written and ffmpeg run; `except Exception` returns the
\* failure without touching the directory.
concatenate_audio_segments_run ==
    /\ call.pc = "concat_run"
    /\ \E run \in RunOutcomes :
          call' = IF run = "ok" THEN [call EXCEPT !.pc = "concat_cleanup"]
                  ELSE ConcatReturn(call, MediaFailure(call.output_path, run))
    /\ CallFrame

\* shutil.rmtree(temp_dir), os.path.getsize(output_path), return.
concatenate_audio_segments_cleanup ==
    /\ call.pc = "concat_cleanup"
    /\ \E rm \in RmtreeOutcomes, size \in {"ok", "raise"} :
          call' = IF rm = "raise"
                  THEN ConcatReturn(call, MediaFailure(call.output_path, "rmtree failed"))
                  ELSE IF size = "raise"
                  THEN ConcatReturn([call EXCEPT !.concat_dir = "removed"],
                                    MediaFailure(call.output_path, "OSError"))
                  ELSE ConcatReturn([call EXCEPT !.concat_dir = "removed"],
                                    MediaSuccess(call.output_path))
    /\ CallFrame

\* stitch_video: the availability check, then tempfile.mkdtemp inside `try`.
stitch_video_begin ==
    /\ call.fn = "FFmpegService.stitch_video"
    /\ call.pc = "called"
    /\ \E mk \in RequestOutcomes(MkdtempOutcomes, FFmpegAvailable) :
          call' = IF ~FFmpegAvailable
                  THEN [call EXCEPT !.pc = "returned",
                                    !.result = MediaFailure(call.output_path, "FFmpeg not installed")]
                  ELSE IF mk = "raise"
                  THEN [call EXCEPT !.pc = "returned",
                                    !.result = MediaFailure(call.output_path, "OSError")]
                  ELSE [call EXCEPT !.pc = "probe", !.temp_dir = "exists"]
    /\ CallFrame

\* get_video_info (an error dict raises "Cannot read video"), then the list
\* of file paths (empty raises "No audio segments provided"); both are caught
\* by `except Exception`, which returns the failure.
stitch_video_probe ==
    /\ call.fn = "FFmpegService.stitch_video"
    /\ call.pc = "probe"
    /\ \E info \in {"ok", "error"} :
          LET audio_files == Len(SelectSeq(call.audio_segments, LAMBDA has_path : has_path))
          IN call' = IF info = "error"
                     THEN [call EXCEPT !.pc = "returned",
                                       !.result = MediaFailure(call.output_path, "Cannot read video")]
                     ELSE IF audio_files = 0
                     THEN [call EXCEPT !.pc = "returned",
                                       !.result = MediaFailure(call.output_path,
                                                               "No audio segments provided")]
                     ELSE [call EXCEPT !.pc = "concat_called", !.audio_files = audio_files]
    /\ CallFrame

\* `if not concat_result.success: raise`, then the encode; every exception
\* ends in one of the two except clauses, which return the failure.
stitch_video_merge ==
    /\ call.fn = "FFmpegService.stitch_video"
    /\ call.pc = "concat_returned"
    /\ \E run \in RequestOutcomes(RunOutcomes, call.concat_result.success) :
          call' = IF ~call.concat_result.success
                  THEN [call EXCEPT !.pc = "returned",
                                    !.result = MediaFailure(call.output_path,
                                                            "Audio concatenation failed")]
                  ELSE IF run # "ok"
                  THEN [call EXCEPT !.pc = "returned",
                                    !.result = MediaFailure(call.output_path, run)]
                  ELSE [call EXCEPT !.pc = "stitch_cleanup"]
    /\ CallFrame

\* get_video_info (never raises), shutil.rmtree(temp_dir), return.
stitch_video_cleanup ==
    /\ call.fn = "FFmpegService.stitch_video"
    /\ call.pc = "stitch_cleanup"
    /\ \E rm \in RmtreeOutcomes :
          call' = IF rm = "raise"
                  THEN [call EXCEPT !.pc = "returned",
                                    !.result = MediaFailure(call.output_path, "rmtree failed")]
                  ELSE [call EXCEPT !.pc = "returned", !.temp_dir = "removed",
                                    !.result = MediaSuccess(call.output_path)]
    /\ CallFrame

InitMedia ==
    /\ cfg \in [aws : {TRUE}, bucket : {TRUE}, ffmpeg : BOOLEAN]
    /\ jobs = <<>>
    /\ job_results = [j \in 1..MaxJobs |-> NoResults]
    /\ tasks = <<>>
    /\ loop = 0
    /\ history = {}
    /\ resp = NoResp
    /\ call \in
          {MediaFrame("mute_video", "called", <<>>, 0)}
          \cup {MediaFrame("concatenate_audio_segments", "concat_called", <<>>, n) :
                  n \in 0..MaxAudio}
          \cup {MediaFrame("FFmpegService.stitch_video", "called", segs, 0) :
                  segs \in UNION {[1..n -> BOOLEAN] : n \in 0..MaxAudio}}
          \cup WhatsAppCalls

NextMedia ==
    \/ mute_video
    \/ concatenate_audio_segments
    \/ concatenate_audio_segments_run
    \/ concatenate_audio_segments_cleanup
    \/ stitch_video_begin
    \/ stitch_video_probe
    \/ stitch_video_merge
    \/ stitch_video_cleanup
    \/ create_whatsapp_version

SpecMedia == InitMedia /\ [][NextMedia]_vars

\* ------------------------------------------ several jobs at the same time
\* Every job of the registry has one task scheduled for it: the task
\* POST /localize schedules, the Phase 1 task, or the task POST /finalize
\* schedules with a non-empty list.  The tasks share the event loop; a task
\* awaiting speech synthesis lets the others run.
InitConcurrent ==
    /\ cfg \in [aws : {TRUE}, bucket : {TRUE}, ffmpeg : {TRUE}]
    /\ jobs = [j \in 1..(MaxJobs + 1) |-> LocalizationJob(FileKey, Language)]
    /\ job_results = [j \in 1..(MaxJobs + 1) |-> NoResults]
    /\ \E fns \in [1..(MaxJobs + 1) -> {PLJ, PDC, PFD}],
          segs \in [1..(MaxJobs + 1) -> SegLists \ {<<>>}] :
          tasks = [j \in 1..(MaxJobs + 1) |->
                      Task(fns[j], j, IF fns[j] = PFD THEN segs[j] ELSE <<>>, "u1")]
    /\ loop = 0
    /\ history = {}
    /\ resp = NoResp
    /\ call = NoCall

NextConcurrent ==
    \/ get_job_status
    \/ \E t \in TaskIds : PLJ_Begin(t)
    \/ \E t \in TaskIds : PLJ_Download(t)
    \/ \E t \in TaskIds : PLJ_Analyzing(t)
    \/ \E t \in TaskIds : PLJ_Analyze(t)
    \/ \E t \in TaskIds : PLJ_GenAudio(t)
    \/ \E t \in TaskIds : PLJ_AudioDone(t)
    \/ \E t \in TaskIds : PLJ_Stitching(t)
    \/ \E t \in TaskIds : PLJ_Stitch(t)
    \/ \E t \in TaskIds : PLJ_Except(t)
    \/ \E t \in TaskIds : PLJ_Finally(t)
    \/ \E t \in TaskIds : PDC_Begin(t)
    \/ \E t \in TaskIds : PDC_Download(t)
    \/ \E t \in TaskIds : PDC_Analyzing(t)
    \/ \E t \in TaskIds : PDC_Analyze(t)
    \/ \E t \in TaskIds : PDC_Complete(t)
    \/ \E t \in TaskIds : PDC_Save(t)
    \/ \E t \in TaskIds : PDC_Except(t)
    \/ \E t \in TaskIds : PDC_Finally(t)
    \/ \E t \in TaskIds : PFD_Begin(t)
    \/ \E t \in TaskIds : PFD_Download(t)
    \/ \E t \in TaskIds : PFD_GenAudio(t)
    \/ \E t \in TaskIds : PFD_AudioDone(t)
    \/ \E t \in TaskIds : PFD_Stitching(t)
    \/ \E t \in TaskIds : PFD_Stitch(t)
    \/ \E t \in TaskIds : PFD_Except(t)
    \/ \E t \in TaskIds : PFD_ExceptDb(t)
    \/ \E t \in TaskIds : PFD_Finally(t)
    \/ \E t \in TaskIds : TTS_Next(t)
    \/ \E t \in TaskIds : TTS_Return(t)

SpecConcurrent == InitConcurrent /\ [][NextConcurrent]_vars

C2_MalformedFinalizeRejected ==
    [][ (resp'.op = "finalize"
            /\ (resp'.req.job_id = 0 \/ resp'.req.segments_count = 0)) =>
        (resp'.code = 400 /\ jobs' = jobs /\ history' = history /\ tasks' = tasks) ]_vars

\* An empty list was sent for a registered job whose phase has failed, with
\* FFmpeg available: only the validation stands between the request and the reset.
C2_Witness ==
    /\ resp.op = "finalize"
    /\ resp.code = 400
    /\ resp.req.segments_count = 0
    /\ resp.req.job_id \in DOMAIN jobs
    /\ jobs[resp.req.job_id].status = FAILED
    /\ FFmpegAvailable

\* C3: a job is in GENERATING_AUDIO or STITCHING only after a finalize request
\* has been accepted for it (accepting it is what schedules
\* process_finalize_dubbing for the job).
C3_SynthesisOnlyAfterFinalize ==
    \A j \in DOMAIN jobs :
        jobs[j].status \in {GENERATING_AUDIO, STITCHING} =>
            \E t \in DOMAIN tasks : tasks[t].fn = PFD /\ tasks[t].job_id = j

\* C4: every status change of a job is an edge of the fixed graph: the Phase 1
\* chain, the Phase 2 chain, FAILED from a non-terminal status, or the reset to
\* PENDING by which POST /finalize starts Phase 2.
C4_StatusGraph ==
    [][ \A j \in DOMAIN jobs :
            LET from == jobs[j].status
                to   == jobs'[j].status
            IN from # to =>
                \/ <<from, to>> \in {<<PENDING, UPLOADING>>, <<UPLOADING, ANALYZING>>,
                                     <<ANALYZING, COMPLETE>>}
                \/ <<from, to>> \in {<<PENDING, UPLOADING>>, <<UPLOADING, GENERATING_AUDIO>>,
                                     <<GENERATING_AUDIO, STITCHING>>, <<STITCHING, COMPLETE>>}
                \/ from \notin {COMPLETE, FAILED} /\ to = FAILED
                \/ from \in {COMPLETE, FAILED} /\ to = PENDING /\ resp'.op = "finalize" ]_vars

\* C5: while a job is COMPLETE or FAILED, the only step that changes its
\* status or progress is a finalize request accepted for it.
C5_TerminalUntilFinalize ==
    [][ \A j \in DOMAIN jobs :
            (/\ jobs[j].status \in {COMPLETE, FAILED}
             /\ (jobs'[j].status # jobs[j].status \/ jobs'[j].progress # jobs[j].progress))
            => (resp'.op = "finalize" /\ resp'.code = 200 /\ resp'.req.job_id = j) ]_vars

\* C6: a Phase 2 task whose directory was created, whose download succeeded and
\* which synthesized at least one segment reaches its `finally` with the job
\* COMPLETE at progress 100 and output_file set.
C6_Phase2Completes ==
    \A t \in DOMAIN tasks :
        (/\ tasks[t].fn = PFD
         /\ tasks[t].pc = "finally"
         /\ tasks[t].exc \notin {"OSError", "Download failed", "BotoCoreError"}
         /\ Len(tasks[t].audio_segments) >= 1)
        => (/\ jobs[tasks[t].job_id].status = COMPLETE
            /\ jobs[tasks[t].job_id].progress = 100
            /\ jobs[tasks[t].job_id].output_file # None)

\* C7: when the task of either phase has handled an exception, the job is
\* FAILED and its error field is the exception's message.
C7_FatalErrorFailsJob ==
    \A t \in DOMAIN tasks :
        (tasks[t].pc = "finally" /\ tasks[t].exc # None) =>
            /\ jobs[tasks[t].job_id].status = FAILED
            /\ jobs[tasks[t].job_id].error = tasks[t].exc

\* A Phase 2 task failed after its download (the stitching step raised) and
\* stands in its `finally` with the job carrying that error.
C7_Witness ==
    \E t \in DOMAIN tasks :
        /\ tasks[t].fn = PFD
        /\ tasks[t].pc = "finally"
        /\ tasks[t].exc \notin {None, "OSError", "Download failed", "BotoCoreError"}
        /\ jobs[tasks[t].job_id].error = tasks[t].exc

\* C8: no exception leaves the coroutine of a background task.
C8_NoExceptionEscapes ==
    \A t \in DOMAIN tasks : tasks[t].escaped = None

C10_OneTaskPerJob ==
    \A j \in DOMAIN jobs :
        Cardinality({t \in DOMAIN tasks :
                        tasks[t].job_id = j /\ tasks[t].pc \notin {"start", "done"}}) <= 1

\* C11: once a Phase 2 task is past the WhatsApp step, the encode of the
\* WhatsApp version has been invoked if and only if the primary stitch
\* succeeded and its size is strictly greater than 15 MB.
C11_CompactAttemptedIffLarge ==
    \A t \in DOMAIN tasks :
        (tasks[t].fn = PFD /\ tasks[t].pc \notin {"start", "stitched", "whatsapp"}
            /\ tasks[t].written >= 80) =>
            (tasks[t].whatsapp_result # None
                <=> (tasks[t].stitch_result.success /\ tasks[t].stitch_result.file_size_mb > 15))

\* C11 as stated: the WhatsApp version is produced if and only if the primary
\* stitch succeeded and its size is strictly greater than 15 MB.
C11_CompactProducedIffLarge ==
    \A t \in DOMAIN tasks :
        (tasks[t].fn = PFD /\ tasks[t].pc \notin {"start", "stitched", "whatsapp"}
            /\ tasks[t].written >= 80) =>
            (tasks[t].whatsapp_result = "success"
                <=> (tasks[t].stitch_result.success /\ tasks[t].stitch_result.file_size_mb > 15))

\* A primary of exactly 15 MB went on to its upload without the encode.
C11_Witness ==
    \E t \in DOMAIN tasks :
        /\ tasks[t].fn = PFD
        /\ tasks[t].pc = "upload"
        /\ tasks[t].stitch_result = ProcessingResult(TRUE, 15)
        /\ tasks[t].whatsapp_result = None

\* C12: no step of the WhatsApp version (its encode, its upload) taken after a
\* successful primary stitch sends the task to its except block.
C12_CompactFailureNotFatal ==
    [][ \A t \in DOMAIN tasks :
            (tasks[t].pc \in {"whatsapp", "whatsapp_upload"} /\ tasks[t].stitch_result.success)
            => tasks'[t].pc # "except" ]_vars

\* C19: the step of the subtitle block, however it ends, leaves the job
\* COMPLETE at progress 100 and lets the task go on.
C19_SubtitleFailureNotFatal ==
    [][ \A t \in DOMAIN tasks :
            (tasks[t].pc = "vtt" /\ tasks'[t].pc # "vtt") =>
                /\ tasks'[t].pc \in {"update_db", "finally"}
                /\ jobs'[tasks[t].job_id].status = COMPLETE
                /\ jobs'[tasks[t].job_id].progress = 100 ]_vars

\* The upload of the subtitle document raised and the task stands before its
\* history update with the job COMPLETE.
C19_Witness ==
    \E t \in DOMAIN tasks :
        /\ tasks[t].pc = "update_db"
        /\ tasks[t].vtt = "upload_raise"
        /\ jobs[tasks[t].job_id].status = COMPLETE
        /\ jobs[tasks[t].job_id].progress = 100

\* C13: the video bitrate computed for the WhatsApp version of a video of
\* positive duration is max(200, floor(target_size_MB * 8192 / duration) - 96);
\* for 14.5 MB and 116 s it is 928.
C13_CompactBitrate ==
    (call.fn = "create_whatsapp_version" /\ call.pc = "returned"
        /\ call.video_bitrate # NoBitrate) =>
        LET duration == IF call.info.error THEN 60 ELSE call.info.duration
        IN /\ call.video_bitrate =
                Max(200, ((call.target_size_mb * 8192) \div (10 * duration)) - 96)
           /\ (call.target_size_mb = 145 /\ duration = 116) => call.video_bitrate = 928

\* C14: the stitch call of Phase 2 returns with the synthesized track placed
\* at an offset equal to the start time of the first approved segment (a
\* first segment starting at 3.2 s gives an offset of 3.2 s).
C14_AudioOffsetIsFirstStart ==
    (call.fn = "stitch_video" /\ call.pc # "called") =>
        /\ call.pc = "returned"
        /\ call.audio_offset = call.approved_segments[1].start
        /\ call.approved_segments[1].start = 32000 => call.audio_offset = 32000

\* C15: when generate_segments_from_analysis has returned, the list it
\* returned holds exactly the segments whose translated text is non-empty,
\* each once, in the order of the input.
C15_OneAudioPerSpokenSegment ==
    \A t \in DOMAIN tasks :
        tasks[t].pc = "tts_done" =>
            tasks[t].audio_segments =
                SelectSeq([i \in 1..Len(tasks[t].segments) |-> i],
                          LAMBDA i : tasks[t].segments[i].translated_text # "")

\* C16: when the synthesis of a segment fails (the segment is not added to
\* the list), the coordination call does not go on: the task is in its
\* except block at the next step.
C16_SynthesisFailureIsFatal ==
    [][ \A t \in DOMAIN tasks :
            (/\ tasks[t].pc = "tts_await"
             /\ tasks'[t].pc # "tts_await"
             /\ tasks'[t].audio_segments = tasks[t].audio_segments)
            => tasks'[t].pc = "except" ]_vars

\* C17: the subtitle document is the header line followed by one caption
\* block per segment with non-empty translated text, in segment order; the
\* time line of a block gives the segment's start and end as
\* HH:MM:SS.mmm --> HH:MM:SS.mmm (start 2, end 5: 00:00:02.000 --> 00:00:05.000).
C17_SubtitleDocument ==
    (call.fn = "vtt" /\ call.pc = "returned") =>
        LET Timestamp(t) ==
                LET ms == (t + 5) \div 10
                IN Pad2(ms \div 3600000) \o ":" \o Pad2((ms % 3600000) \div 60000) \o ":"
                     \o Pad2((ms % 60000) \div 1000) \o "." \o Pad3(ms % 1000)
            spoken == SelectSeq(call.approved_segments,
                                LAMBDA seg : seg.translated_text \notin {"", " "})
            lines == call.vtt_lines
        IN /\ Len(lines) = 2 + 4 * Len(spoken)
           /\ lines[1] = "WEBVTT"
           /\ lines[2] = ""
           /\ \A k \in 1..Len(spoken) :
                /\ lines[4 * k] =
                      Timestamp(spoken[k].start) \o " --> " \o Timestamp(spoken[k].end)
                /\ lines[4 * k + 1] = "t"
                /\ lines[4 * k + 2] = ""
                /\ (spoken[k].start = 20000 /\ spoken[k].end = 50000)
                      => lines[4 * k] = "00:00:02.000 --> 00:00:05.000"

\* C18: the caption blocks of the subtitle document are numbered 1, 2, ..., k
\* without gaps, k being the number of segments whose translated text is
\* neither empty nor whitespace only.
C18_BlockNumbersContiguous ==
    (call.fn = "vtt" /\ call.pc = "returned") =>
        LET k == Len(SelectSeq(call.approved_segments,
                               LAMBDA seg : seg.translated_text \notin {"", " "}))
        IN /\ Len(call.vtt_lines) = 2 + 4 * k
           /\ \A n \in 1..k : call.vtt_lines[4 * n - 1] = ToString(n)

\* C20: the AI call is made at most 10 times; the wait that follows failed
\* attempt k (k = 1..9) is 5 * 2^(k-1) seconds; at most 9 waits happen and
\* none after the last attempt.
C20_RetrySchedule ==
    call.fn = "analyze_video" =>
        /\ call.calls <= 10
        /\ Len(call.sleeps) <= 9
        /\ \A k \in 1..Len(call.sleeps) : call.sleeps[k] = 5 * (2 ^ (k - 1))
        /\ Len(call.sleeps) = IF call.pc = "attempt" THEN call.calls ELSE call.calls - 1
        /\ call.result = "quota_error" => call.calls = 10

\* Ten attempts failed with a transient error: nine waits, the last of 1280 s.
C20_Witness ==
    /\ call.fn = "analyze_video"
    /\ call.result = "quota_error"
    /\ call.calls = 10
    /\ Len(call.sleeps) = 9
    /\ call.sleeps[9] = 1280

\* C21: an error of the AI call that is not transient ends the call at the
\* attempt that met it: no further attempt, wait or other step of the call
\* follows, the next step of the task enters its except block, and the task
\* ends with the job FAILED.
C21_NonTransientNotRetried ==
    /\ [](call.fn = "analyze_video" =>
            /\ call.result = "exception" => call.pc \in {"raised", "raised_out"}
            /\ call.pc \in {"raised", "raised_out"} =>
                  /\ call.calls = call.attempt + 1
                  /\ Len(call.sleeps) = call.attempt
                  /\ \A t \in DOMAIN tasks :
                        /\ tasks[t].pc \in {"in_analysis", "except", "finally", "done"}
                        /\ tasks[t].pc \in {"finally", "done"} =>
                              jobs[tasks[t].job_id].status = FAILED)
    /\ [][(call.fn = "analyze_video" /\ call.pc = "raised") =>
            /\ call' = [call EXCEPT !.pc = "raised_out"]
            /\ \A t \in DOMAIN tasks : tasks'[t].pc = "except"]_vars

\* The third attempt met an error that is not transient; the task has ended
\* and the job is FAILED.
C21_Witness ==
    /\ call.fn = "analyze_video"
    /\ call.pc = "raised_out"
    /\ call.calls = 3
    /\ \E t \in DOMAIN tasks :
          /\ tasks[t].pc = "done"
          /\ jobs[tasks[t].job_id].status = FAILED
          /\ jobs[tasks[t].job_id].error = "GeminiError"

\* C22: when every attempt up to the cap met a transient error, the analysis
\* has returned (after exactly 10 attempts) an error result, nothing was
\* stored as a draft, and the task ends with the job FAILED and that error
\* recorded in it.
C22_ExhaustedRetriesFailJob ==
    (call.fn = "analyze_video" /\ call.result = "quota_error") =>
        /\ call.pc \in {"returned", "returned_out"}
        /\ call.calls = 10
        /\ job_results[1] = NoResults
        /\ \A t \in DOMAIN tasks :
              /\ tasks[t].pc \in {"in_analysis", "except", "finally", "done"}
              /\ tasks[t].pc \in {"finally", "done"} =>
                    /\ jobs[tasks[t].job_id].status = FAILED
                    /\ jobs[tasks[t].job_id].error = "Analysis failed: quota_error"

\* Ten transient failures; the task has ended with the job FAILED.
C22_Witness ==
    /\ call.fn = "analyze_video"
    /\ call.result = "quota_error"
    /\ call.calls = 10
    /\ \E t \in DOMAIN tasks :
          /\ tasks[t].pc = "done"
          /\ jobs[tasks[t].job_id].status = FAILED

\* C23: every started Phase 1 task eventually ends, with its job COMPLETE or
\* FAILED, provided every step that can be taken is taken.
C23_TaskEventuallyEnds ==
    <>(\A t \in DOMAIN tasks :
          /\ tasks[t].pc = "done"
          /\ jobs[tasks[t].job_id].status \in {COMPLETE, FAILED})

\* C24: when the Phase 1 task has ended with the job COMPLETE, progress is
\* 100, the stored draft holds one segment per segment of the analysis, in
\* the same order and each marked not approved, and a needs_review history
\* record of the job exists exactly if the caller identity is known.
C24_Phase1Success ==
    \A t \in DOMAIN tasks :
        (/\ tasks[t].fn = PDC
         /\ tasks[t].pc = "done"
         /\ call.fn = "analyze_video"
         /\ jobs[tasks[t].job_id].status = COMPLETE) =>
            LET j == tasks[t].job_id
                draft == job_results[j]
            IN /\ jobs[j].progress = 100
               /\ draft.kind = "draft"
               /\ Len(draft.segments) = Len(call.segments)
               /\ \A i \in 1..Len(call.segments) :
                     /\ draft.segments[i].translated_text = call.segments[i].translated_text
                     /\ draft.segments[i].is_approved = FALSE
               /\ (\E r \in history : /\ r.PK = tasks[t].user_id
                                      /\ r.job_id = j
                                      /\ r.status = "needs_review")
                     <=> tasks[t].user_id # None

\* C25: a finalize request that is accepted (200) writes PENDING and progress 0
\* into the job it names and schedules the Phase 2 task under the same
\* job_id; the registry gets no new entry, and the job's input reference,
\* target language and every other job are unchanged.
C25_FinalizeReusesJob ==
    [][(resp'.op = "finalize" /\ resp'.code = 200) =>
          LET j == resp'.req.job_id IN
          /\ j \in DOMAIN jobs
          /\ DOMAIN jobs' = DOMAIN jobs
          /\ jobs'[j].status = PENDING
          /\ jobs'[j].progress = 0
          /\ jobs'[j].input_file = jobs[j].input_file
          /\ jobs'[j].target_language = jobs[j].target_language
          /\ \A k \in DOMAIN jobs \ {j} : jobs'[k] = jobs[k]
          /\ Len(tasks') = Len(tasks) + 1
          /\ tasks'[Len(tasks')].fn = PFD
          /\ tasks'[Len(tasks')].job_id = j]_vars

\* A job whose first task has ended was accepted for finalization and stands
\* at PENDING, progress 0, with its Phase 2 task scheduled.
C25_Witness ==
    /\ resp.op = "finalize"
    /\ resp.code = 200
    /\ Len(jobs) = 1
    /\ jobs[1].status = PENDING
    /\ jobs[1].progress = 0
    /\ jobs[1].error # None
    /\ Len(tasks) = 2
    /\ tasks[1].pc = "done"
    /\ tasks[2].fn = PFD
    /\ tasks[2].pc = "start"

\* C26: when the tasks of a job of an identified caller have all ended and the
\* job is FAILED, every history record of that job in the caller's partition
\* has status failed.
C26_FailureRecordedInHistory ==
    \A t \in DOMAIN tasks :
        (/\ tasks[t].pc = "done"
         /\ tasks[t].user_id # None
         /\ jobs[tasks[t].job_id].status = FAILED
         /\ \A u \in DOMAIN tasks : tasks[u].job_id = tasks[t].job_id => tasks[u].pc = "done") =>
            \A r \in Items(tasks[t].user_id, tasks[t].job_id) : r.status = "failed"

\* C27: when the Phase 2 task of an identified caller has ended with the job
\* COMPLETE and the job has a history record, that record has status complete.
C27_CompletionRecordedInHistory ==
    \A t \in DOMAIN tasks :
        (/\ tasks[t].fn = PFD
         /\ tasks[t].pc = "done"
         /\ tasks[t].user_id # None
         /\ jobs[tasks[t].job_id].status = COMPLETE) =>
            \A r \in Items(tasks[t].user_id, tasks[t].job_id) : r.status = "complete"

C29_PollReadsOnly ==
    [][resp'.op = "job_status" =>
          /\ UNCHANGED <<cfg, jobs, job_results, tasks, loop, history>>
          /\ IF resp'.job_id \in DOMAIN jobs
             THEN /\ resp'.code = 200
                  /\ resp'.status = jobs[resp'.job_id].status
                  /\ resp'.progress = jobs[resp'.job_id].progress
                  /\ resp'.results = IF jobs[resp'.job_id].status = COMPLETE
                                     THEN job_results[resp'.job_id] ELSE NoResults
             ELSE resp'.code = 404]_vars

\* A job that is not COMPLETE and has stored results was polled: the response
\* carries its status and no results.
C29_Witness ==
    /\ resp.op = "job_status"
    /\ resp.code = 200
    /\ jobs[resp.job_id].status = FAILED
    /\ resp.status = FAILED
    /\ job_results[resp.job_id] # NoResults
    /\ resp.results = NoResults

\* C30: while a task is inside a call to an external collaborator (storage
\* download or upload, AI analysis, speech synthesis, media encode), a status
\* poll can be served.
C30_PollsServedDuringCalls ==
    \A t \in DOMAIN tasks :
        tasks[t].pc \in {"download", "analyze", "tts_await", "stitch", "upload"}
            => ENABLED get_job_status

\* C31: every result a media operation (mute, concatenate, stitch, WhatsApp
\* version) has returned carries an output path exactly if it reports
\* success, and then it is the path the operation was asked to write; this
\* holds as well for the concatenation result handed to the stitch.
C31_ResultNeverPartial ==
    /\ (call.fn \in {"mute_video", "concatenate_audio_segments",
                     "FFmpegService.stitch_video", "create_whatsapp_version"}
            /\ call.pc = "returned") =>
          /\ call.result.success <=> call.result.output_path # None
          /\ call.result.success => call.result.output_path = call.output_path
          /\ call.result.success <=> call.result.error = None
    /\ (call.fn = "FFmpegService.stitch_video" /\ call.pc \in {"concat_returned", "returned"}) =>
          (call.concat_result.success <=> call.concat_result.output_path # None)

\* The encode of a stitch failed after its audio was concatenated: the stitch
\* returned a failure without a path, the concatenation a success with one.
C31_Witness ==
    /\ call.fn = "FFmpegService.stitch_video"
    /\ call.pc = "returned"
    /\ call.concat_result.success
    /\ call.concat_result.output_path # None
    /\ ~call.result.success
    /\ call.result.error = "ffmpeg.Error"
    /\ call.result.output_path = None

\* C39: when the stitch or the audio concatenation has returned, no directory
\* it made for itself is left on disk.
C39_OwnTempDirsRemoved ==
    (call.fn \in {"FFmpegService.stitch_video", "concatenate_audio_segments"}
        /\ call.pc = "returned") =>
        /\ call.temp_dir # "exists"
        /\ call.concat_dir # "exists"

\* C32: while a Phase 2 task runs, the progress of its job lies in the range
\* of the job's status: 5..15 under UPLOADING, 20..50 under GENERATING_AUDIO,
\* 55..85 under STITCHING, and progress 100 appears only with COMPLETE.
C32_Phase2ProgressRanges ==
    \A t \in DOMAIN tasks :
        (tasks[t].fn = PFD /\ tasks[t].pc \notin {"start", "done"}) =>
            LET job == jobs[tasks[t].job_id] IN
            /\ job.status = UPLOADING => job.progress \in 5..15
            /\ job.status = GENERATING_AUDIO => job.progress \in 20..50
            /\ job.status = STITCHING => job.progress \in 55..85
            /\ job.progress = 100 => job.status = COMPLETE

\* C33: the step in which the removal of a task's temp directory fails ends
\* the task without an exception leaving it and changes nothing in any job
\* (status, progress, error) or in the stored results.
C33_CleanupFailureSwallowed ==
    [][ \A t \in DOMAIN tasks :
            (tasks[t].pc = "finally" /\ tasks'[t].pc = "done" /\ tasks'[t].rmtree_failed) =>
                /\ tasks'[t].escaped = tasks[t].escaped
                /\ tasks'[t].exc = tasks[t].exc
                /\ jobs' = jobs
                /\ job_results' = job_results
                /\ loop' = 0 ]_vars

\* The removal failed at the end of a Phase 2 task that had handled an
\* exception: the task has ended, nothing left it, the job is FAILED with
\* that exception as its error and the directory is still there.
C33_Witness ==
    \E t \in DOMAIN tasks :
        /\ tasks[t].fn = PFD
        /\ tasks[t].pc = "done"
        /\ tasks[t].rmtree_failed
        /\ tasks[t].temp_dir = "exists"
        /\ tasks[t].escaped = None
        /\ tasks[t].exc # None
        /\ jobs[tasks[t].job_id].status = FAILED
        /\ jobs[tasks[t].job_id].error = tasks[t].exc

\* C34: a step taken by the task of one job leaves every other job's registry
\* entry (status, progress, message, error) and stored results unchanged, and
\* leaves every other task, its temp directory included, as it was.
C34_TaskWritesOwnJobOnly ==
    [][ \A t \in DOMAIN tasks :
            tasks'[t] # tasks[t] =>
                /\ \A j \in DOMAIN jobs \ {tasks[t].job_id} :
                      /\ jobs'[j] = jobs[j]
                      /\ job_results'[j] = job_results[j]
                /\ \A u \in DOMAIN tasks \ {t} : tasks'[u] = tasks[u] ]_vars

\* Two jobs run at once: the task of one awaits speech synthesis with its job
\* at GENERATING_AUDIO and no error, while the task of the other has failed
\* its own job, written its progress and ended.
C34_Witness ==
    \E t, u \in DOMAIN tasks :
        /\ tasks[t].job_id # tasks[u].job_id
        /\ tasks[t].pc = "tts_await"
        /\ jobs[tasks[t].job_id].status = GENERATING_AUDIO
        /\ jobs[tasks[t].job_id].error = None
        /\ tasks[u].pc = "done"
        /\ jobs[tasks[u].job_id].status = FAILED
        /\ jobs[tasks[u].job_id].progress > jobs[tasks[t].job_id].progress

\* C35: a finalize request resets a job or schedules a Phase 2 task only if
\* the job is COMPLETE with a stored draft (its Phase 1 has ended well); for a
\* job that is still in a phase or is FAILED it changes neither.
C35_FinalizeOnlyAfterDraft ==
    [][ (resp'.op = "finalize" /\ (jobs' # jobs \/ tasks' # tasks)) =>
            /\ jobs[resp'.req.job_id].status = COMPLETE
            /\ job_results[resp'.req.job_id].kind = "draft" ]_vars

\* C36: a finalize request that resets a job also schedules the Phase 2 task
\* of that job in the same step: no job is left reset without a task to run it.
C36_ResetImpliesScheduled ==
    [][ (resp'.op = "finalize" /\ jobs' # jobs) =>
            /\ Len(tasks') = Len(tasks) + 1
            /\ tasks'[Len(tasks')].fn = PFD
            /\ tasks'[Len(tasks')].job_id = resp'.req.job_id
            /\ tasks'[Len(tasks')].pc = "start" ]_vars

\* C37: a job whose status is COMPLETE has no error recorded.
C37_CompleteHasNoError ==
    \A j \in DOMAIN jobs : jobs[j].status = COMPLETE => jobs[j].error = None

\* C38: when the Phase 2 task goes on to its history update after the upload
\* of the subtitle document failed (an error result or an exception), the
\* subtitle key it passes is absent.
C38_SubtitleKeyOnlyIfUploaded ==
    \A t \in DOMAIN tasks :
        (tasks[t].fn = PFD /\ tasks[t].pc = "update_db"
            /\ tasks[t].vtt \in {"upload_error", "upload_raise"}) =>
            tasks[t].subtitle_s3_key = None
====
